---- MODULE Spec2Model ----
(***************************************************************************)
(* Natural-language search tools over Jira and Confluence.                 *)
(*                                                                         *)
(* A JavaScript string is a sequence of one-character strings.  A query    *)
(* that is handed to a backing service is a sequence of records            *)
(* [ch, user]: ch is the character and user tells whether the character    *)
(* was interpolated from a caller-supplied value (TRUE) or comes from the  *)
(* program's own template text (FALSE).  Text(t) is the string itself.     *)
(***************************************************************************)
EXTENDS Integers, Sequences, FiniteSets, TLC

\* ------------------------------------------------------------------ bounds
\* longest prompt / query / issue text, counted in tokens of the alphabets
MaxLen == 4
MaxIssueLen == 1
MaxQueryLen == 3
\* longest prompt made of whole quoted phrases and words
MaxPhraseToks == 3
\* longest digit string tried in "last N days"
MaxDigits == 3
\* longest spaces / labels argument
MaxSpaces == 1
MaxLabels == 2
\* longest list of records in an answer of the backing service
MaxRecords == 2
\* most path segments of a page URL
MaxSegs == 3

\* -------------------------------------------------------------- characters
Q == "\""
BS == "\\"
Upper == <<"A","B","C","D","E","F","G","H","I","J","K","L","M","N","O","P","Q","R","S","T","U","V","W","X","Y","Z">>
Lower == <<"a","b","c","d","e","f","g","h","i","j","k","l","m","n","o","p","q","r","s","t","u","v","w","x","y","z">>
Digits == {"0","1","2","3","4","5","6","7","8","9"}
Letters == {Upper[i] : i \in 1..26} \cup {Lower[i] : i \in 1..26}
\* \w
WordChars == Letters \cup Digits \cup {"_"}
\* \s
WS == {" ", "\t", "\n", "\r"}

Min(S) == CHOOSE x \in S : \A y \in S : x <= y
Max(S) == CHOOSE x \in S : \A y \in S : x >= y

toLowerCase(s) ==
  [i \in 1..Len(s) |->
     IF \E k \in 1..26 : Upper[k] = s[i]
     THEN Lower[CHOOSE k \in 1..26 : Upper[k] = s[i]] ELSE s[i]]

toUpperCase(s) ==
  [i \in 1..Len(s) |->
     IF \E k \in 1..26 : Lower[k] = s[i]
     THEN Upper[CHOOSE k \in 1..26 : Lower[k] = s[i]] ELSE s[i]]

\* String.prototype.trim
trim(s) ==
  LET keep == {i \in 1..Len(s) : s[i] \notin WS}
  IN IF keep = {} THEN <<>> ELSE SubSeq(s, Min(keep), Max(keep))

\* s.replace(/\"/g, '\\"'): a backslash is put before every double quote
RECURSIVE replaceQuotes(_)
replaceQuotes(s) ==
  IF s = <<>> THEN <<>>
  ELSE (IF Head(s) = Q THEN <<BS, Q>> ELSE <<Head(s)>>) \o replaceQuotes(Tail(s))

\* Array.prototype.join
RECURSIVE join(_, _)
join(parts, sep) ==
  IF parts = <<>> THEN <<>>
  ELSE IF Len(parts) = 1 THEN parts[1]
  ELSE parts[1] \o sep \o join(Tail(parts), sep)

\* template text of the program and interpolated caller text
Code(s) == [i \in 1..Len(s) |-> [ch |-> s[i], user |-> FALSE]]
User(s) == [i \in 1..Len(s) |-> [ch |-> s[i], user |-> TRUE]]
Text(t) == [i \in 1..Len(t) |-> t[i].ch]

\* ------------------------------------------------------ regular expressions
\* \b at position p (between s[p-1] and s[p])
IsW(s, k) == k \in 1..Len(s) /\ s[k] \in WordChars
WB(s, p) == IsW(s, p - 1) # IsW(s, p)
\* the literal w starts at position p
At(s, p, w) == p >= 1 /\ p + Len(w) - 1 <= Len(s) /\ SubSeq(s, p, p + Len(w) - 1) = w
\* greedy C*: first position from p on that is not in class C
RunEnd(s, p, C) == Min({q \in p..(Len(s) + 1) : q = Len(s) + 1 \/ s[q] \notin C})
\* /w/.test(s): the word anywhere, also inside a longer word
HasWord_Substring(s, w) ==
  \E p \in 1..Len(s) : At(s, p, w)
\* /\bw\b/.test(s)
HasWord(s, w) ==
  \E p \in 1..Len(s) : WB(s, p) /\ At(s, p, w) /\ WB(s, p + Len(w))
\* /\b(w1|w2|...)\b/.test(s)
HasAnyWord(s, W) == \E w \in W : HasWord(s, w)

\* /\b(last|past)\s+week\b/.test(lower)
HasLastWeek(s) ==
  \E p \in 1..Len(s) :
    /\ WB(s, p)
    /\ (At(s, p, <<"l","a","s","t">>) \/ At(s, p, <<"p","a","s","t">>))
    /\ LET q == RunEnd(s, p + 4, WS)
       IN q > p + 4 /\ At(s, q, <<"w","e","e","k">>) /\ WB(s, q + 4)

\* prompt.match(/\b(?:in\s+)?project\s*[:=]?\s*([A-Z][A-Z0-9_]+)/i):
\* <<capture>> of the leftmost match, <<>> when there is none
projectCapStart(l, j) ==
  LET a == RunEnd(l, j + 7, WS)
      b == IF a <= Len(l) /\ l[a] \in {":", "="} THEN a + 1 ELSE a
  IN RunEnd(l, b, WS)
projectMatchAt(l, j) ==
  /\ WB(l, j)
  /\ At(l, j, <<"p","r","o","j","e","c","t">>)
  /\ LET c == projectCapStart(l, j)
     IN c + 1 <= Len(l) /\ l[c] \in Letters /\ l[c + 1] \in WordChars
projectMatch(prompt) ==
  LET l == toLowerCase(prompt)
      J == {j \in 1..Len(l) : projectMatchAt(l, j)}
  IN IF J = {} THEN <<>>
     ELSE LET c == projectCapStart(l, Min(J))
          IN <<SubSeq(prompt, c, RunEnd(l, c, WordChars) - 1)>>

\* variant of lastNDaysAt that takes a digit string of any length (\d+)
lastNDaysAt_AnyDigits(l, j) ==
  /\ WB(l, j)
  /\ At(l, j, <<"l","a","s","t">>)
  /\ LET a == RunEnd(l, j + 4, WS)
         d == RunEnd(l, a, Digits)
         e == RunEnd(l, d, WS)
     IN a > j + 4 /\ d - a >= 1 /\ e > d /\ At(l, e, <<"d","a","y">>)

\* prompt.match(/\blast\s+(\d{1,2})\s+days?/i)
lastNDaysAt(l, j) ==
  /\ WB(l, j)
  /\ At(l, j, <<"l","a","s","t">>)
  /\ LET a == RunEnd(l, j + 4, WS)
         d == RunEnd(l, a, Digits)
         e == RunEnd(l, d, WS)
     IN a > j + 4 /\ d - a \in {1, 2} /\ e > d /\ At(l, e, <<"d","a","y">>)
lastNDays(prompt) ==
  LET l == toLowerCase(prompt)
      J == {j \in 1..Len(l) : lastNDaysAt(l, j)}
  IN IF J = {} THEN <<>>
     ELSE LET a == RunEnd(l, Min(J) + 4, WS)
          IN <<SubSeq(prompt, a, RunEnd(l, a, Digits) - 1)>>

\* prompt.match(/\blabels?\s*[:=]\s*([\w, -]+)/i)
LabelChars == WordChars \cup {",", " ", "-"}
labelSep(l, j) ==
  RunEnd(l, IF At(l, j + 5, <<"s">>) THEN j + 6 ELSE j + 5, WS)
\* starts of the capture that backtracking over the second \s* can reach
labelCapStarts(l, j) ==
  LET e == labelSep(l, j) + 1
  IN {c \in e..Len(l) : l[c] \in LabelChars /\ \A k \in e..(c - 1) : l[k] \in WS}
labelBlockAt(l, j) ==
  /\ WB(l, j)
  /\ At(l, j, <<"l","a","b","e","l">>)
  /\ LET e == labelSep(l, j)
     IN e <= Len(l) /\ l[e] \in {":", "="} /\ labelCapStarts(l, j) # {}
labelBlock(prompt) ==
  LET l == toLowerCase(prompt)
      J == {j \in 1..Len(l) : labelBlockAt(l, j)}
  IN IF J = {} THEN <<>>
     ELSE LET c == Max(labelCapStarts(l, Min(J)))
          IN <<SubSeq(prompt, c, RunEnd(l, c, LabelChars) - 1)>>

\* cap.split(/[,\s]+/).map((s) => s.trim()).filter(Boolean)
RECURSIVE splitLabels(_)
splitLabels(cap) ==
  IF cap = <<>> THEN <<>>
  ELSE IF Head(cap) \in {",", " "} THEN splitLabels(Tail(cap))
  ELSE LET e == RunEnd(cap, 1, LabelChars \ {",", " "})
       IN <<SubSeq(cap, 1, e - 1)>> \o splitLabels(SubSeq(cap, e, Len(cap)))

\* Array.from(prompt.matchAll(/"([^"]+)"/g)).map((m) => m[1]), scanning from p
RECURSIVE matchAllQuoted(_, _)
matchAllQuoted(s, p) ==
  IF p > Len(s) THEN <<>>
  ELSE IF s[p] # Q THEN matchAllQuoted(s, p + 1)
  ELSE LET j == RunEnd(s, p + 1, {s[k] : k \in 1..Len(s)} \ {Q})
       IN IF j <= Len(s) /\ j > p + 1
          THEN <<SubSeq(s, p + 1, j - 1)>> \o matchAllQuoted(s, j + 1)
          ELSE matchAllQuoted(s, p + 1)
quotedPhrases(prompt) == matchAllQuoted(prompt, 1)

\* ------------------------------------------------- issue-query compiler (NL)
\* the two copies: search_jira_nl of the MCP server and JiraNaturalLanguageTool
Copies == {"mcp", "langchain"}

UnresolvedWords(copy) ==
  {<<"o","p","e","n">>, <<"u","n","r","e","s","o","l","v","e","d">>, <<"n","o","t"," ","d","o","n","e">>, <<"t","o","d","o">>, <<"t","o"," ","d","o">>}
    \cup (IF copy = "langchain" THEN {<<"i","n","c","o","m","p","l","e","t","e">>, <<"p","e","n","d","i","n","g">>} ELSE {})
\* the copies disagreeing about a word both have in the code
DoneWords_Diverged(copy) ==
  IF copy = "langchain" THEN {<<"c","l","o","s","e","d">>, <<"r","e","s","o","l","v","e","d">>, <<"c","o","m","p","l","e","t","e","d">>, <<"f","i","n","i","s","h","e","d">>}
  ELSE {<<"d","o","n","e">>, <<"c","l","o","s","e","d">>, <<"r","e","s","o","l","v","e","d">>}
DoneWords(copy) ==
  {<<"d","o","n","e">>, <<"c","l","o","s","e","d">>, <<"r","e","s","o","l","v","e","d">>}
    \cup (IF copy = "langchain" THEN {<<"c","o","m","p","l","e","t","e","d">>, <<"f","i","n","i","s","h","e","d">>} ELSE {})

Cond(b, frag) == IF b THEN <<frag>> ELSE <<>>

\* labels.map((l) => `labels = "${l.replace(/"/g, '\\"')}"`)
labelFrags(labels) ==
  [i \in 1..Len(labels) |->
     Code(<<"l","a","b","e","l","s"," ","="," ","\"">>) \o User(replaceQuotes(labels[i])) \o Code(<<"\"">>)]

\* the conditions pushed by the matchers, in the order of the code
matcherConditions(prompt, copy) ==
  LET lower == toLowerCase(prompt)
      pm == projectMatch(prompt)
      nd == lastNDays(prompt)
      lb == labelBlock(prompt)
      labels == IF lb = <<>> THEN <<>> ELSE splitLabels(lb[1])
  IN Cond(HasWord(lower, <<"a","s","s","i","g","n","e","d"," ","t","o"," ","m","e">>), Code(<<"a","s","s","i","g","n","e","e"," ","="," ","c","u","r","r","e","n","t","U","s","e","r","(",")">>))
  \o Cond(HasWord(lower, <<"r","e","p","o","r","t","e","d"," ","b","y"," ","m","e">>), Code(<<"r","e","p","o","r","t","e","r"," ","="," ","c","u","r","r","e","n","t","U","s","e","r","(",")">>))
  \o Cond(HasWord(lower, <<"u","n","a","s","s","i","g","n","e","d">>), Code(<<"a","s","s","i","g","n","e","e"," ","i","s"," ","E","M","P","T","Y">>))
  \o Cond(HasAnyWord(lower, UnresolvedWords(copy)), Code(<<"r","e","s","o","l","u","t","i","o","n"," ","="," ","U","n","r","e","s","o","l","v","e","d">>))
  \o Cond(HasAnyWord(lower, DoneWords(copy)), Code(<<"s","t","a","t","u","s","C","a","t","e","g","o","r","y"," ","="," ","D","o","n","e">>))
  \o Cond(HasWord(lower, <<"i","n"," ","p","r","o","g","r","e","s","s">>), Code(<<"s","t","a","t","u","s","C","a","t","e","g","o","r","y"," ","="," ","\"","I","n"," ","P","r","o","g","r","e","s","s","\"">>))
  \o Cond(pm # <<>>, Code(<<"p","r","o","j","e","c","t"," ","="," ">>) \o User(toUpperCase(IF pm = <<>> THEN <<>> ELSE pm[1])))
  \o Cond(HasWord(lower, <<"b","u","g">>), Code(<<"i","s","s","u","e","t","y","p","e"," ","="," ","\"","B","u","g","\"">>))
  \o Cond(HasWord(lower, <<"s","t","o","r","y">>), Code(<<"i","s","s","u","e","t","y","p","e"," ","="," ","\"","S","t","o","r","y","\"">>))
  \o Cond(HasWord(lower, <<"t","a","s","k">>), Code(<<"i","s","s","u","e","t","y","p","e"," ","="," ","\"","T","a","s","k","\"">>))
  \o Cond(HasWord(lower, <<"c","r","i","t","i","c","a","l">>), Code(<<"p","r","i","o","r","i","t","y"," ","="," ","\"","C","r","i","t","i","c","a","l","\"">>))
  \o Cond(HasWord(lower, <<"b","l","o","c","k","e","r">>), Code(<<"p","r","i","o","r","i","t","y"," ","="," ","\"","B","l","o","c","k","e","r","\"">>))
  \o Cond(HasAnyWord(lower, {<<"h","i","g","h","e","s","t">>, <<"p","1">>}), Code(<<"p","r","i","o","r","i","t","y"," ","="," ","\"","H","i","g","h","e","s","t","\"">>))
  \o Cond(HasAnyWord(lower, {<<"h","i","g","h">>, <<"p","2">>}), Code(<<"p","r","i","o","r","i","t","y"," ","="," ","\"","H","i","g","h","\"">>))
  \o Cond(HasWord(lower, <<"t","o","d","a","y">>), Code(<<"u","p","d","a","t","e","d"," ",">","="," ","s","t","a","r","t","O","f","D","a","y","(",")">>))
  \o Cond(HasWord(lower, <<"y","e","s","t","e","r","d","a","y">>),
          Code(<<"u","p","d","a","t","e","d"," ",">","="," ","s","t","a","r","t","O","f","D","a","y","(","-","1","d",")"," ","A","N","D"," ","u","p","d","a","t","e","d"," ","<"," ","s","t","a","r","t","O","f","D","a","y","(",")">>))
  \o Cond(HasLastWeek(lower), Code(<<"u","p","d","a","t","e","d"," ",">","="," ","-","1","w">>))
  \o Cond(nd # <<>>, Code(<<"u","p","d","a","t","e","d"," ",">","="," ","-">>) \o User(IF nd = <<>> THEN <<>> ELSE nd[1]) \o Code(<<"d">>))
  \o Cond(HasWord(lower, <<"t","h","i","s"," ","m","o","n","t","h">>), Code(<<"u","p","d","a","t","e","d"," ",">","="," ","s","t","a","r","t","O","f","M","o","n","t","h","(",")">>))
  \o Cond(labels # <<>>, Code(<<"(">>) \o join(labelFrags(labels), Code(<<" ","O","R"," ">>)) \o Code(<<")">>))

\* variants of textTerms with a different rule for the text fragments
textTerms_FirstPhraseOnly(prompt, conditions) ==
  LET qp == quotedPhrases(prompt)
  IN IF qp = <<>> /\ conditions = <<>> THEN <<replaceQuotes(prompt)>>
     ELSE IF qp = <<>> THEN <<>> ELSE <<qp[1]>>
textTerms_NoPhraseRule(prompt, conditions) ==
  LET qp == quotedPhrases(prompt)
  IN IF qp = <<>> THEN <<replaceQuotes(prompt)>> ELSE qp
textTerms_NoConditionRule(prompt, conditions) ==
  LET qp == quotedPhrases(prompt)
  IN IF conditions = <<>> THEN qp \o <<replaceQuotes(prompt)>> ELSE qp

\* textTerms: the quoted phrases, or the escaped whole prompt when there is
\* neither a quoted phrase nor a condition
textTerms(prompt, conditions) ==
  LET qp == quotedPhrases(prompt)
  IN IF qp = <<>> /\ conditions = <<>> THEN <<replaceQuotes(prompt)>> ELSE qp

\* textTerms.map((t) => `text ~ "${t.replace(/"/g, '\\"')}"`).join(" AND ")
textExpr(terms) ==
  join([i \in 1..Len(terms) |->
          Code(<<"t","e","x","t"," ","~"," ","\"">>) \o User(replaceQuotes(terms[i])) \o Code(<<"\"">>)],
       Code(<<" ","A","N","D"," ">>))

\* if (textExpr) conditions.push(textExpr)
pushTextExpr(conditions, terms) ==
  IF terms = <<>> THEN conditions ELSE conditions \o <<textExpr(terms)>>

\* String.prototype.trim, on a composed query
trimQuery(t) ==
  LET keep == {i \in 1..Len(t) : t[i].ch \notin WS}
  IN IF keep = {} THEN <<>> ELSE SubSeq(t, Min(keep), Max(keep))

\* `${conditions.join(" AND ")} order by updated desc`.trim()
composeJql(prompt, conditions) ==
  trimQuery(join(pushTextExpr(conditions, textTerms(prompt, conditions)), Code(<<" ","A","N","D"," ">>))
            \o Code(<<" ","o","r","d","e","r"," ","b","y"," ","u","p","d","a","t","e","d"," ","d","e","s","c">>))

nlJql(prompt, copy) == composeJql(prompt, matcherConditions(prompt, copy))

\* -------------------------------------------- free-text search (search_jira)
\* `text ~ "${escaped}" order by updated desc` for q = (query || "").trim();
\* <<>> when neither a jql nor a non-blank query is given
searchJiraJql_NoTrim(jql, query) ==
  LET effectiveJql == IF jql = <<>> THEN <<>> ELSE jql[1]
      q == IF query = <<>> THEN <<>> ELSE query[1]
  IN IF effectiveJql # <<>> THEN <<User(effectiveJql)>>
     ELSE IF q = <<>> THEN <<>>
     ELSE <<Code(<<"t","e","x","t"," ","~"," ","\"">>) \o User(replaceQuotes(q)) \o Code(<<"\""," ","o","r","d","e","r"," ","b","y"," ","u","p","d","a","t","e","d"," ","d","e","s","c">>)>>
\* the caller's jql normalised like the query
searchJiraJql_TrimJql(jql, query) ==
  LET effectiveJql == trim(IF jql = <<>> THEN <<>> ELSE jql[1])
      q == trim(IF query = <<>> THEN <<>> ELSE query[1])
  IN IF effectiveJql # <<>> THEN <<User(effectiveJql)>>
     ELSE IF q = <<>> THEN <<>>
     ELSE <<Code(<<"t","e","x","t"," ","~"," ","\"">>) \o User(replaceQuotes(q)) \o Code(<<"\""," ","o","r","d","e","r"," ","b","y"," ","u","p","d","a","t","e","d"," ","d","e","s","c">>)>>
searchJiraJql(jql, query) ==
  LET effectiveJql == IF jql = <<>> THEN <<>> ELSE jql[1]
      q == trim(IF query = <<>> THEN <<>> ELSE query[1])
  IN IF effectiveJql # <<>> THEN <<User(effectiveJql)>>
     ELSE IF q = <<>> THEN <<>>
     ELSE <<Code(<<"t","e","x","t"," ","~"," ","\"">>) \o User(replaceQuotes(q)) \o Code(<<"\""," ","o","r","d","e","r"," ","b","y"," ","u","p","d","a","t","e","d"," ","d","e","s","c">>)>>

\* ------------------------------------------------------ URL encoding of CQL
\* characters encodeURIComponent leaves alone
Unreserved == Letters \cup Digits \cup {"-", "_", ".", "!", "~", "*", "'", "(", ")"}
\* percent codes (UTF-8 byte in hexadecimal) of the other characters that occur
PctOf ==
  (" " :> <<"2","0">>) @@ (Q :> <<"2","2">>) @@ (BS :> <<"5","C">>) @@ ("=" :> <<"3","D">>) @@ ("\n" :> <<"0","A">>)
  @@ ("\t" :> <<"0","9">>) @@ ("\r" :> <<"0","D">>) @@ (":" :> <<"3","A">>) @@ ("," :> <<"2","C">>)
  @@ ("?" :> <<"3","F">>) @@ ("%" :> <<"2","5">>) @@ (">" :> <<"3","E">>) @@ ("<" :> <<"3","C">>)
  @@ ("/" :> <<"2","F">>) @@ ("&" :> <<"2","6">>) @@ ("+" :> <<"2","B">>) @@ ("#" :> <<"2","3">>)
CharOf == [h \in {PctOf[c] : c \in DOMAIN PctOf} |-> CHOOSE c \in DOMAIN PctOf : PctOf[c] = h]

\* encodeURIComponent, applied to the characters lo..hi of t
RECURSIVE encodeRange(_, _, _)
encodeRange(t, lo, hi) ==
  IF lo > hi THEN <<>>
  ELSE IF lo = hi
  THEN IF t[lo].ch \in Unreserved THEN <<t[lo]>>
       ELSE LET h == PctOf[t[lo].ch]
            IN <<[ch |-> "%", user |-> t[lo].user], [ch |-> h[1], user |-> t[lo].user],
                 [ch |-> h[2], user |-> t[lo].user]>>
  ELSE LET mid == (lo + hi) \div 2
       IN encodeRange(t, lo, mid) \o encodeRange(t, mid + 1, hi)
encodeURIComponent(t) == encodeRange(t, 1, Len(t))

\* the backing service percent-decodes the query-string parameter it receives
RECURSIVE decodeRange(_, _, _)
decodeRange(u, lo, hi) ==
  IF lo > hi THEN <<>>
  ELSE IF lo = hi
  THEN IF u[lo].ch = "%" /\ lo + 2 <= Len(u)
       THEN <<[ch |-> CharOf[<<u[lo + 1].ch, u[lo + 2].ch>>], user |-> u[lo].user]>>
       ELSE IF (lo > 1 /\ u[lo - 1].ch = "%") \/ (lo > 2 /\ u[lo - 2].ch = "%") THEN <<>>
       ELSE <<u[lo]>>
  ELSE LET mid == (lo + hi) \div 2
       IN decodeRange(u, lo, mid) \o decodeRange(u, mid + 1, hi)
urlDecode(u) == decodeRange(u, 1, Len(u))

\* ------------------------------------------- keyword search (search_confluence)
\* the cql parameter of `.../content/search?cql=text~"${encodeURIComponent(query)}"`
searchConfluenceParam(query) ==
  Code(<<"t","e","x","t","~","\"">>) \o encodeURIComponent(User(query)) \o Code(<<"\"">>)

\* ------------------------------------------------------- new URL(url, base)
\* String.prototype.indexOf, counted from 1, 0 when absent
indexOf(s, c) ==
  IF \E i \in 1..Len(s) : s[i] = c THEN Min({i \in 1..Len(s) : s[i] = c}) ELSE 0
before(s, c) == IF indexOf(s, c) = 0 THEN s ELSE SubSeq(s, 1, indexOf(s, c) - 1)
after(s, c) == IF indexOf(s, c) = 0 THEN <<>> ELSE SubSeq(s, indexOf(s, c) + 1, Len(s))
RECURSIVE split(_, _)
split(s, c) ==
  IF indexOf(s, c) = 0 THEN <<s>> ELSE <<before(s, c)>> \o split(after(s, c), c)
filterBoolean(parts) == SelectSeq(parts, LAMBDA x : x # <<>>)
skipSlashes(s) ==
  IF \A i \in 1..Len(s) : s[i] = "/" THEN <<>>
  ELSE SubSeq(s, Min({i \in 1..Len(s) : s[i] # "/"}), Len(s))

\* The URL parser on an https reference, the base being an origin (its path
\* is "/").  The fragment is cut first; a reference that starts with the
\* scheme or with "//" names a host, found after any further slashes, and is
\* invalid (the constructor throws) when that host is empty; any other
\* reference is a path on the base.  pathname never lacks its leading "/".
Scheme == <<"h","t","t","p","s",":">>
parseURL(url) ==
  LET noFrag == before(url, "#")
      ref == IF At(noFrag, 1, Scheme) THEN SubSeq(noFrag, Len(Scheme) + 1, Len(noFrag))
             ELSE noFrag
      authority == At(ref, 1, <<"/","/">>)
      hostOn == skipSlashes(ref)
      host == before(before(hostOn, "/"), "?")
      local == IF authority THEN SubSeq(hostOn, Len(host) + 1, Len(hostOn)) ELSE ref
      path == before(local, "?")
  IN [valid |-> ~authority \/ host # <<>>,
      pathname |-> IF path = <<>> \/ path[1] # "/" THEN <<"/">> \o path ELSE path,
      search |-> after(local, "?")]

\* percent-decoding of a name or value of the query string
UrlCharOf == CharOf @@ (<<"3","7">> :> "7")
RECURSIVE percentDecode(_)
percentDecode(s) ==
  IF s = <<>> THEN <<>>
  ELSE IF s[1] = "%" /\ Len(s) >= 3 /\ SubSeq(s, 2, 3) \in DOMAIN UrlCharOf
  THEN <<UrlCharOf[SubSeq(s, 2, 3)]>> \o percentDecode(SubSeq(s, 4, Len(s)))
  ELSE <<s[1]>> \o percentDecode(Tail(s))
\* URL.searchParams: the name=value pieces between "&", empty pieces dropped
searchParams(search) ==
  LET pieces == filterBoolean(split(search, "&"))
  IN [i \in 1..Len(pieces) |-> [name |-> percentDecode(before(pieces[i], "=")),
                                 value |-> percentDecode(after(pieces[i], "="))]]
\* URLSearchParams.get: the value of the first parameter of that name, or null
get(params, name) ==
  IF \E i \in 1..Len(params) : params[i].name = name
  THEN <<params[Min({i \in 1..Len(params) : params[i].name = name})].value>>
  ELSE <<>>

\* ------------------------------------------- page fetch (get_confluence_page)
digitsTest_Always(part) == TRUE
\* /^\d+$/.test(part)
digitsTest(part) == part # <<>> /\ \A i \in 1..Len(part) : part[i] \in Digits
\* Array.prototype.findIndex, counted from 1, 0 when none
pagesIndexOf(pathParts) ==
  IF \E i \in 1..Len(pathParts) : pathParts[i] = <<"p","a","g","e","s">>
  THEN Min({i \in 1..Len(pathParts) : pathParts[i] = <<"p","a","g","e","s">>}) ELSE 0
\* the content id a handler derives from the URL; "" when it derives none
contentIdOf(url) ==
  LET parsedUrl == parseURL(url)
  IN IF ~parsedUrl.valid THEN <<>>
     ELSE LET byParam == get(searchParams(parsedUrl.search), <<"p","a","g","e","I","d">>)
              pathParts == filterBoolean(split(parsedUrl.pathname, "/"))
              pagesIndex == pagesIndexOf(pathParts)
          IN IF byParam # <<>> /\ byParam[1] # <<>> THEN byParam[1]
             ELSE IF /\ pagesIndex # 0
                     /\ pagesIndex + 1 <= Len(pathParts)
                     /\ digitsTest(pathParts[pagesIndex + 1])
             THEN pathParts[pagesIndex + 1]
             ELSE <<>>
\* `/wiki/rest/api/content/${contentId}?expand=...`
pageApiUrl(contentId) ==
  Code(<<"/","w","i","k","i","/","r","e","s","t","/","a","p","i","/","c","o","n","t","e","n","t","/">>) \o User(contentId)
    \o Code(<<"?","e","x","p","a","n","d","=","b","o","d","y",".","s","t","o","r","a","g","e",",","v","e","r","s","i","o","n",",","h","i","s","t","o","r","y",",","s","p","a","c","e",",","m","e","t","a","d","a","t","a",".","l","a","b","e","l","s">>)
\* `/rest/api/3/issue/${encodeURIComponent(key)}?expand=renderedFields,changelog`
issueApiUrl(key) ==
  Code(<<"/","r","e","s","t","/","a","p","i","/","3","/","i","s","s","u","e","/">>) \o encodeURIComponent(User(key))
    \o Code(<<"?","e","x","p","a","n","d","=","r","e","n","d","e","r","e","d","F","i","e","l","d","s",",","c","h","a","n","g","e","l","o","g">>)

\* ------------------------------------------------ content-solution compiler
defaultLabels ==
  << <<"t","r","o","u","b","l","e","s","h","o","o","t","i","n","g">>, <<"h","o","w","-","t","o">>, <<"k","b","-","h","o","w","-","t","o","-","a","r","t","i","c","l","e">>, <<"r","e","s","o","l","u","t","i","o","n">>,
     <<"f","i","x">>, <<"s","e","t","u","p">>, <<"i","n","s","t","a","l","l">>, <<"c","o","n","f","i","g","u","r","e">> >>
titleKeywords ==
  << <<"t","r","o","u","b","l","e","s","h","o","o","t">>, <<"s","o","l","u","t","i","o","n">>, <<"r","e","s","o","l","v","e">>, <<"e","r","r","o","r">>, <<"f","i","x">>, <<"h","o","w"," ","t","o">>,
     <<"h","o","w","-","t","o">>, <<"s","e","t","u","p">>, <<"i","n","s","t","a","l","l">>, <<"c","o","n","f","i","g","u","r","e">>, <<"g","u","i","d","e">> >>

\* Array.from(new Set(list)): the first occurrence of every element, in order
dedupe(list) ==
  LET keep == {i \in 1..Len(list) : \A k \in 1..(i - 1) : list[k] # list[i]}
  IN [n \in 1..Cardinality(keep) |->
        list[CHOOSE i \in keep : Cardinality({k \in keep : k <= i}) = n]]

prioritizedLabels_NoSet(labels) ==
  (IF labels = <<>> THEN <<>> ELSE labels[1]) \o defaultLabels
prioritizedLabels(labels) ==
  dedupe((IF labels = <<>> THEN <<>> ELSE labels[1]) \o defaultLabels)

labelCql(labels) ==
  LET pl == prioritizedLabels(labels)
  IN join([i \in 1..Len(pl) |->
             Code(<<"l","a","b","e","l"," ","="," ","\"">>) \o User(replaceQuotes(pl[i])) \o Code(<<"\"">>)],
          Code(<<" ","O","R"," ">>))
titleCql ==
  join([i \in 1..Len(titleKeywords) |->
          Code(<<"t","i","t","l","e"," ","~"," ","\"">>) \o Code(replaceQuotes(titleKeywords[i])) \o Code(<<"\"">>)],
       Code(<<" ","O","R"," ">>))
spaceCql_NoLengthTest(spaces) ==
  IF spaces = <<>> THEN <<>>
  ELSE Code(<<"(">>)
       \o join([i \in 1..Len(spaces[1]) |->
                  Code(<<"s","p","a","c","e"," ","="," ","\"">>) \o User(replaceQuotes(spaces[1][i])) \o Code(<<"\"">>)],
               Code(<<" ","O","R"," ">>))
       \o Code(<<")">>)
\* "" unless spaces is a non-empty array
spaceCql(spaces) ==
  IF spaces = <<>> \/ spaces[1] = <<>> THEN <<>>
  ELSE Code(<<"(">>)
       \o join([i \in 1..Len(spaces[1]) |->
                  Code(<<"s","p","a","c","e"," ","="," ","\"">>) \o User(replaceQuotes(spaces[1][i])) \o Code(<<"\"">>)],
               Code(<<" ","O","R"," ">>))
       \o Code(<<")">>)

solutionsCql_OrSpace(issue, spaces, labels) ==
  join(<< Code(<<"t","y","p","e"," ","="," ","p","a","g","e">>),
          Code(<<"(","t","e","x","t"," ","~"," ","\"">>) \o User(replaceQuotes(issue)) \o Code(<<"\"",")">>),
          Code(<<"(">>) \o titleCql \o Code(<<")">>),
          Code(<<"(">>) \o labelCql(labels) \o Code(<<")">>) >>, Code(<<" ","A","N","D"," ">>))
    \o (IF spaceCql(spaces) # <<>> THEN Code(<<" ","O","R"," ">>) \o spaceCql(spaces) ELSE <<>>)
    \o Code(<<" ","o","r","d","e","r"," ","b","y"," ","l","a","s","t","m","o","d","i","f","i","e","d"," ","d","e","s","c">>)
\* `${cqlParts.join(" AND ")} order by lastmodified desc`
solutionsCql(issue, spaces, labels) ==
  LET cqlParts ==
        << Code(<<"t","y","p","e"," ","="," ","p","a","g","e">>),
           Code(<<"(","t","e","x","t"," ","~"," ","\"">>) \o User(replaceQuotes(issue)) \o Code(<<"\"",")">>),
           Code(<<"(">>) \o titleCql \o Code(<<")">>),
           Code(<<"(">>) \o labelCql(labels) \o Code(<<")">>) >>
        \o (IF spaceCql(spaces) # <<>> THEN <<spaceCql(spaces)>> ELSE <<>>)
  IN join(cqlParts, Code(<<" ","A","N","D"," ">>)) \o Code(<<" ","o","r","d","e","r"," ","b","y"," ","l","a","s","t","m","o","d","i","f","i","e","d"," ","d","e","s","c">>)

\* ------------------------------------------------------------------ inputs
TokSeqs(A, n) == UNION {[1..k -> A] : k \in 0..n}
Texts(A, n) == {join(ts, <<>>) : ts \in TokSeqs(A, n)}

Scenario1 == <<"s","h","o","w"," ","i","s","s","u","e","s"," ","a","s","s","i","g","n","e","d"," ","t","o"," ","m","e"," ","l","a","s","t"," ","w","e","e","k"," ","i","n"," ","E","N","G">>
Scenario2 == <<"i","s"," ","t","h","e"," ","X"," ","t","a","s","k"," ","d","o","n","e","?">>
PromptAlphabet == {<<"x">>, <<Q>>, <<BS>>, <<"b","u","g">>}
PhraseAlphabet == {<<"\"","x","\"">>, <<"\"","y"," ","z","\"">>, <<" ","b","u","g"," ">>, <<BS>>}
DayDigits == {"0", "2", "9"}
DayPrompts ==
  {<<"l","a","s","t"," ">> \o ds \o <<" ","d","a","y","s">> : ds \in UNION {[1..k -> DayDigits] : k \in 1..MaxDigits}}
\* prompts that name priorities: two of them, one inside another word, in
\* upper case, next to "-" and next to "_"
PriorityPrompts ==
  {<<"c","r","i","t","i","c","a","l"," ","h","i","g","h">>, <<"h","i","g","h","e","s","t">>, <<"P","1"," ","b","l","o","c","k","e","r">>, <<"h","i","g","h","-","p","2">>, <<"h","i","g","h","_">>, <<"H","i","g","h","e","s","t"," ","H","I","G","H">>}
\* prompts with a status word that one copy of the compiler knows and the
\* other does not, as a word and inside another word
SynonymPrompts == {<<"p","e","n","d","i","n","g">>, <<"c","o","m","p","l","e","t","e","d"," ","x">>, <<"s","p","e","n","d","i","n","g">>}
Prompts ==
  Texts(PromptAlphabet, MaxLen) \cup Texts(PhraseAlphabet, MaxPhraseToks) \cup DayPrompts
    \cup {Scenario1, Scenario2, <<" ">>, <<"x","\n","y">>, <<"b","u","g"," ","x">>}
    \cup PriorityPrompts \cup SynonymPrompts

Queries == Texts({<<"x">>, <<" ">>, <<Q>>, <<BS>>}, MaxQueryLen)
\* a jql of the caller's: absent, empty, or one with blanks around it and a
\* quoted literal inside
JqlArgs == {<<>>, << <<>> >>, << <<" ","k"," ","~"," ","\"","a","\""," ">> >>}
Issues ==
  Texts({<<"x">>, <<Q>>, <<BS>>}, MaxIssueLen) \cup {<<BS, Q>>, <<"s","u","r","v","e","y"," ","s","u","b","m","i","s","s","i","o","n"," ","f","a","i","l","i","n","g">>}
\* page URLs: with or without origin, a path of at most MaxSegs segments, a
\* query string, and the shapes the keyword search emits
Origins == {<<>>, <<"h","t","t","p","s",":","/","/","c">>}
Segments == {<<"p","a","g","e","s">>, <<"7">>, <<"x">>, <<>>}
Paths == {join([i \in 1..Len(ts) |-> <<"/">> \o ts[i]], <<>>) : ts \in TokSeqs(Segments, MaxSegs)}
QueryStrings == {<<>>, <<"?","p","a","g","e","I","d","=","7">>, <<"?","p","a","g","e","I","d","=">>, <<"?","x","=","1","&","p","a","g","e","I","d","=","%","3","7">>, <<"?","p","a","g","e","I","d","=","&","p","a","g","e","I","d","=","7">>}
EmittedUrl == <<"h","t","t","p","s",":","/","/","c","/","w","i","k","i","/","s","p","a","c","e","s","/","K","E","Y","/","p","a","g","e","s","/","1","2","3","/","T","i","t","l","e">>
EmittedUrlOfSpacePages == <<"h","t","t","p","s",":","/","/","c","/","w","i","k","i","/","s","p","a","c","e","s","/","p","a","g","e","s","/","p","a","g","e","s","/","1","2","3","/","T","i","t","l","e">>
Urls ==
  {o \o pa \o q : o \in Origins, pa \in Paths, q \in QueryStrings}
    \cup {EmittedUrl, EmittedUrlOfSpacePages, <<"h","t","t","p","s",":","/","/","c","/","x","#","/","p","a","g","e","s","/","7">>, <<"h","t","t","p","s",":","/","/","c","/","x","#","?","p","a","g","e","I","d","=","7">>}
Keys == {<<>>, <<"E","N","G","-","1">>, <<"a","/","b">>}
\* omitted, or a list: of at most MaxSpaces (MaxLabels) plain names, or one
\* that holds a double quote
SpaceArgs ==
  {<<>>, << << <<"E", Q>> >> >>} \cup {<<s>> : s \in TokSeqs({<<"E","N","G">>}, MaxSpaces)}
LabelArgs ==
  {<<>>, << << <<"f","i","x">>, <<"l", Q>> >> >>, << << <<"l", Q>>, <<"f","i","x">> >> >>}
    \cup {<<s>> : s \in TokSeqs({<<"f","i","x">>}, MaxLabels)}

\* declared ranges and defaults of maxResults and limit
JiraMaxLo == 1
JiraMaxHi == 50
JiraMaxDefault == 10
LimitLo == 1
LimitHi == 20
LimitDefault == 5
Probes(lo, hi) == {<<>>} \cup {<<n>> : n \in {lo - 1, lo, hi, hi + 1}}
Absent(S) == {<<>>} \cup {<<x>> : x \in S}

\* z.number().int().min(lo).max(hi).optional()
ValidLimit(limit, lo, hi) == limit = <<>> \/ limit[1] \in lo..hi
\* typeof limit === "number" ? limit : d
OrDefault(limit, d) == IF limit = <<>> THEN d ELSE limit[1]

\* environment variables the services read at start
McpEnv == {"BASE_URL", "EMAIL", "API_TOKEN"}
ExpressEnv == McpEnv \cup {"GROQ_API_KEY"}
Envs == {ExpressEnv, {"BASE_URL"}, {}}

\* ------------------------------------------------------------------- state
\* env: the environment variables set; pc: where the one handler is ("idle",
\* "done" once it has rejected the call or awaits the backing service,
\* "replied" once it has returned after the service answered); call: its
\* arguments; sent: the request it made; outcome: how its first part ended;
\* resp: the answer of the backing service; reply: what it returned;
\* agentExecutor: whether the agent's executor has been created (not null)
VARIABLES env, pc, call, sent, outcome, resp, reply, agentExecutor,
          client, chatHistory, input, response
\* the state of the interactive client: which copy of it runs, its chat
\* history, the line it read last and what sendQuery returned for it
clientVars == <<client, chatHistory, input, response>>
vars == <<env, pc, call, sent, outcome, resp, reply, agentExecutor, clientVars>>

Call(tool, via, text, jql, spaces, labels, limit) ==
  [tool |-> tool, via |-> via, text |-> text, jql |-> jql,
   spaces |-> spaces, labels |-> labels, limit |-> limit]
NoCall == Call("none", "none", <<>>, <<>>, <<>>, <<>>, <<>>)
Request(svc, q, max) == [svc |-> svc, q |-> q, max |-> max]
Rejected(o) == [sent |-> <<>>, outcome |-> o]
Sent(r) == [sent |-> <<r>>, outcome |-> "sent"]


\* What a handler returns.  kind names the message: "failed" (the service
\* answered with a non-success status), "error" (the catch clause), "none_found",
\* "results", or the outcome that rejected the call; "exception" is a throw
\* that leaves the handler.  isError is the flag of an MCP result, http the
\* status of an Express response.
Reply(kind, isError, status, diag, items) ==
  [kind |-> kind, isError |-> isError, status |-> status, diag |-> diag,
   items |-> items, http |-> <<>>]
NoReply == Reply("none", FALSE, <<>>, <<>>, <<>>)
Thrown == Reply("exception", FALSE, <<>>, <<>>, <<>>)
\* the return of a handler that sent nothing
RejectReply(c, o) ==
  [Reply(o, c.via = "mcp" /\ o # "invalid_params", <<>>, <<>>, <<>>)
     EXCEPT !.http = IF c.via # "http" THEN <<>>
                     ELSE IF o = "bad_request" THEN <<400>> ELSE <<200>>]

Init ==
  /\ env \in Envs
  /\ pc = "idle"
  /\ call = NoCall
  /\ sent = <<>>
  /\ outcome = "none"
  /\ resp = <<>>
  /\ reply = NoReply
  /\ agentExecutor = FALSE
  /\ client = "groq"
  /\ chatHistory = <<>>
  /\ input = <<>>
  /\ response = "none"

Do(c, r) ==
  /\ pc' = "done"
  /\ call' = c
  /\ sent' = r.sent
  /\ outcome' = r.outcome
  /\ resp' = <<>>
  /\ reply' = IF r.outcome = "sent" THEN NoReply ELSE RejectReply(c, r.outcome)
  /\ UNCHANGED <<env, agentExecutor, clientVars>>

\* ------------------------------------------------------------ tool bodies
\* a compiler that keeps state between calls: once the executor exists it
\* compiles every prompt to the empty query
nlFunc_Stateful(prompt, maxResults, copy) ==
  Sent(Request("jira", IF agentExecutor THEN <<>> ELSE nlJql(prompt, copy),
               <<OrDefault(maxResults, JiraMaxDefault)>>))

nlFunc(prompt, maxResults, copy) ==
  Sent(Request("jira", nlJql(prompt, copy), <<OrDefault(maxResults, JiraMaxDefault)>>))

searchJiraFunc(jql, query, maxResults) ==
  LET effectiveJql == searchJiraJql(jql, query)
  IN IF effectiveJql = <<>> THEN Rejected("input_error")
     ELSE Sent(Request("jira", effectiveJql[1], <<OrDefault(maxResults, JiraMaxDefault)>>))

\* `.../wiki/rest/api/search?cql=${encodeURIComponent(cql)}&limit=${max}`
solutionsFunc(issue, spaces, labels, limit) ==
  Sent(Request("confluence",
               urlDecode(encodeURIComponent(solutionsCql(issue, spaces, labels))),
               <<OrDefault(limit, LimitDefault)>>))

searchConfluenceFunc(query) ==
  Sent(Request("confluence", urlDecode(searchConfluenceParam(query)), <<>>))

pageFunc(url) ==
  LET contentId == contentIdOf(url)
  IN IF contentId = <<>> THEN Rejected("unresolved_id")
     ELSE Sent(Request("confluence", pageApiUrl(contentId), <<>>))

issueFunc(key) == Sent(Request("jira", issueApiUrl(key), <<>>))

\* ------------------------------------------------------- MCP tool handlers
search_jira_nl ==
  /\ pc = "idle"
  /\ \E prompt \in Prompts, maxResults \in Probes(JiraMaxLo, JiraMaxHi) :
       Do(Call("search_jira_nl", "mcp", <<prompt>>, <<>>, <<>>, <<>>, maxResults),
          IF ~ValidLimit(maxResults, JiraMaxLo, JiraMaxHi) THEN Rejected("invalid_params")
          ELSE IF ~(McpEnv \subseteq env) THEN Rejected("config_error")
          ELSE nlFunc(prompt, maxResults, "mcp"))

search_jira ==
  /\ pc = "idle"
  /\ \E jql \in JqlArgs, query \in Absent(Queries), maxResults \in Probes(JiraMaxLo, JiraMaxHi) :
       Do(Call("search_jira", "mcp", query, jql, <<>>, <<>>, maxResults),
          IF ~ValidLimit(maxResults, JiraMaxLo, JiraMaxHi) THEN Rejected("invalid_params")
          ELSE IF ~(McpEnv \subseteq env) THEN Rejected("config_error")
          ELSE searchJiraFunc(jql, query, maxResults))

search_confluence_solutions ==
  /\ pc = "idle"
  /\ \E issue \in Issues, spaces \in SpaceArgs, labels \in LabelArgs,
        limit \in Probes(LimitLo, LimitHi) :
       Do(Call("search_confluence_solutions", "mcp", <<issue>>, <<>>, spaces, labels, limit),
          IF ~ValidLimit(limit, LimitLo, LimitHi) THEN Rejected("invalid_params")
          ELSE IF ~(McpEnv \subseteq env) THEN Rejected("config_error")
          ELSE solutionsFunc(issue, spaces, labels, limit))

\* no check of the environment: without a base URL fetch throws on the URL
search_confluence ==
  /\ pc = "idle"
  /\ \E query \in Queries :
       Do(Call("search_confluence", "mcp", <<query>>, <<>>, <<>>, <<>>, <<>>),
          IF "BASE_URL" \notin env THEN Rejected("error")
          ELSE searchConfluenceFunc(query))

get_confluence_page ==
  /\ pc = "idle"
  /\ \E url \in Urls :
       Do(Call("get_confluence_page", "mcp", <<url>>, <<>>, <<>>, <<>>, <<>>),
          IF ~(McpEnv \subseteq env) THEN Rejected("config_error")
          ELSE pageFunc(url))

get_jira_issue ==
  /\ pc = "idle"
  /\ \E key \in Keys :
       Do(Call("get_jira_issue", "mcp", <<key>>, <<>>, <<>>, <<>>, <<>>),
          IF ~(McpEnv \subseteq env) THEN Rejected("config_error")
          ELSE issueFunc(key))

\* ------------------------------ LangChain tools, invoked through the agent
\* (the agent validates the arguments against the tool's schema)
JiraNaturalLanguageTool ==
  /\ pc = "idle"
  /\ ExpressEnv \subseteq env
  /\ \E prompt \in Prompts, maxResults \in Probes(JiraMaxLo, JiraMaxHi) :
       Do(Call("search_jira_nl", "agent", <<prompt>>, <<>>, <<>>, <<>>, maxResults),
          IF ~ValidLimit(maxResults, JiraMaxLo, JiraMaxHi) THEN Rejected("invalid_params")
          ELSE nlFunc(prompt, maxResults, "langchain"))

JiraSearchTool ==
  /\ pc = "idle"
  /\ ExpressEnv \subseteq env
  /\ \E jql \in JqlArgs, query \in Absent(Queries), maxResults \in Probes(JiraMaxLo, JiraMaxHi) :
       Do(Call("search_jira", "agent", query, jql, <<>>, <<>>, maxResults),
          IF ~ValidLimit(maxResults, JiraMaxLo, JiraMaxHi) THEN Rejected("invalid_params")
          ELSE searchJiraFunc(jql, query, maxResults))

ConfluenceSolutionsTool ==
  /\ pc = "idle"
  /\ ExpressEnv \subseteq env
  /\ \E issue \in Issues, spaces \in SpaceArgs, labels \in LabelArgs,
        limit \in Probes(LimitLo, LimitHi) :
       Do(Call("search_confluence_solutions", "agent", <<issue>>, <<>>, spaces, labels, limit),
          IF ~ValidLimit(limit, LimitLo, LimitHi) THEN Rejected("invalid_params")
          ELSE solutionsFunc(issue, spaces, labels, limit))

ConfluenceSearchTool ==
  /\ pc = "idle"
  /\ ExpressEnv \subseteq env
  /\ \E query \in Queries :
       Do(Call("search_confluence", "agent", <<query>>, <<>>, <<>>, <<>>, <<>>),
          searchConfluenceFunc(query))

ConfluencePageTool ==
  /\ pc = "idle"
  /\ ExpressEnv \subseteq env
  /\ \E url \in Urls :
       Do(Call("get_confluence_page", "agent", <<url>>, <<>>, <<>>, <<>>, <<>>),
          pageFunc(url))

JiraIssueTool ==
  /\ pc = "idle"
  /\ ExpressEnv \subseteq env
  /\ \E key \in Keys :
       Do(Call("get_jira_issue", "agent", <<key>>, <<>>, <<>>, <<>>, <<>>),
          issueFunc(key))

\* ------------------------------- Express endpoints: call tool.func directly
PostJiraSearchNl ==
  /\ pc = "idle"
  /\ ExpressEnv \subseteq env
  /\ \E prompt \in Absent(Prompts), maxResults \in Probes(JiraMaxLo, JiraMaxHi) :
       Do(Call("search_jira_nl", "http", prompt, <<>>, <<>>, <<>>, maxResults),
          IF prompt = <<>> \/ prompt[1] = <<>> THEN Rejected("bad_request")
          ELSE nlFunc(prompt[1], maxResults, "langchain"))

PostJiraSearch ==
  /\ pc = "idle"
  /\ ExpressEnv \subseteq env
  /\ \E jql \in JqlArgs, query \in Absent(Queries), maxResults \in Probes(JiraMaxLo, JiraMaxHi) :
       Do(Call("search_jira", "http", query, jql, <<>>, <<>>, maxResults),
          IF (jql = <<>> \/ jql[1] = <<>>) /\ (query = <<>> \/ query[1] = <<>>)
          THEN Rejected("bad_request")
          ELSE searchJiraFunc(jql, query, maxResults))

PostConfluenceSolutions ==
  /\ pc = "idle"
  /\ ExpressEnv \subseteq env
  /\ \E issue \in Absent(Issues), spaces \in SpaceArgs, labels \in LabelArgs,
        limit \in Probes(LimitLo, LimitHi) :
       Do(Call("search_confluence_solutions", "http", issue, <<>>, spaces, labels, limit),
          IF issue = <<>> \/ issue[1] = <<>> THEN Rejected("bad_request")
          ELSE solutionsFunc(issue[1], spaces, labels, limit))

PostConfluenceSearch ==
  /\ pc = "idle"
  /\ ExpressEnv \subseteq env
  /\ \E query \in Absent(Queries) :
       Do(Call("search_confluence", "http", query, <<>>, <<>>, <<>>, <<>>),
          IF query = <<>> \/ query[1] = <<>> THEN Rejected("bad_request")
          ELSE searchConfluenceFunc(query[1]))

\* if (!url || typeof url !== 'string') return res.status(400)
PostConfluencePage ==
  /\ pc = "idle"
  /\ ExpressEnv \subseteq env
  /\ \E url \in Absent(Urls) :
       Do(Call("get_confluence_page", "http", url, <<>>, <<>>, <<>>, <<>>),
          IF url = <<>> \/ url[1] = <<>> THEN Rejected("bad_request")
          ELSE pageFunc(url[1]))

\* if (!key || typeof key !== 'string') return res.status(400)
PostJiraIssue ==
  /\ pc = "idle"
  /\ ExpressEnv \subseteq env
  /\ \E key \in Absent(Keys) :
       Do(Call("get_jira_issue", "http", key, <<>>, <<>>, <<>>, <<>>),
          IF key = <<>> \/ key[1] = <<>> THEN Rejected("bad_request")
          ELSE issueFunc(key[1]))

\* ------------------------------------------- answers of the backing service
\* A body text is kept as runs of equal characters.
Run(c, n) == [ch |-> c, n |-> n]
RECURSIVE Length(_)
Length(t) == IF t = <<>> THEN 0 ELSE t[1].n + Length(Tail(t))
\* String.prototype.slice(0, k)
RECURSIVE slice(_, _)
slice(t, k) ==
  IF t = <<>> \/ k <= 0 THEN <<>>
  ELSE IF t[1].n >= k THEN <<Run(t[1].ch, k)>>
  ELSE <<t[1]>> \o slice(Tail(t), k - t[1].n)
\* errText.slice(0, 500)
DiagLen == 500

\* An answer: net is FALSE when fetch rejects (no answer arrived); ok and
\* status are response.ok and response.status; text is the body; json is what
\* response.json() yields from it: <<>> when the body is not JSON (json()
\* throws), else <<v>> with v.list the array field (issues, results) if any.
Answer(net, ok, status, text, json) ==
  [net |-> net, ok |-> ok, status |-> status, text |-> text, json |-> json]
Json(list) == <<[list |-> list]>>
NetError == Answer(FALSE, FALSE, 0, <<>>, <<>>)
Failures ==
  {NetError,
   Answer(TRUE, FALSE, 401, <<Run("{", 1), Run("m", 20), Run("}", 1)>>, Json(<<>>)),
   Answer(TRUE, FALSE, 500, <<Run("<", 1), Run("h", DiagLen)>>, <<>>)}
Malformed == Answer(TRUE, TRUE, 200, <<Run("<", 1), Run("h", 5)>>, <<>>)
Ok(list) == Answer(TRUE, TRUE, 200, <<Run("{", 1), Run("j", 5), Run("}", 1)>>, Json(list))

\* raw issue records: fields absent; assignee absent, null, without a display
\* name, with an empty one, with one
RawIssue(fields, assignee) == [fields |-> fields, assignee |-> assignee]
RawIssues ==
  << RawIssue(FALSE, [is |-> "undefined"]),
     RawIssue(TRUE, [is |-> "undefined"]),
     RawIssue(TRUE, [is |-> "null"]),
     RawIssue(TRUE, [is |-> "object", displayName |-> <<>>]),
     RawIssue(TRUE, [is |-> "object", displayName |-> <<"">>]),
     RawIssue(TRUE, [is |-> "object", displayName |-> <<"Ann">>]) >>
\* raw search results of the content service: title and link present or not
RawPage(title, links) == [title |-> title, links |-> links]
RawPages == << RawPage(<<"T">>, TRUE), RawPage(<<>>, TRUE), RawPage(<<"T">>, FALSE) >>
\* the lists of at most MaxRecords records that start at every second record
Lists(records) ==
  {<<>>} \cup {SubSeq(records, i, Min({i + MaxRecords - 1, Len(records)})) :
                 i \in {j \in 1..Len(records) : j % 2 = 1}}
Answers(records) ==
  Failures \cup {Malformed, Ok(<<>>)} \cup {Ok(<<l>>) : l \in Lists(records)}
\* answers to the fetch of one record: the body is the record
OkOne(record) == Answer(TRUE, TRUE, 200, <<Run("{", 1), Run("j", 5), Run("}", 1)>>, <<record>>)
AnswersOne(records) ==
  Failures \cup {Malformed} \cup {OkOne(records[i]) : i \in 1..Len(records)}

\* ------------------------------------------------- the handlers after fetch
assignee_NoDefault(i) ==
  IF i.fields /\ i.assignee.is = "object" /\ i.assignee.displayName # <<>>
  THEN i.assignee.displayName[1] ELSE "undefined"
\* i.fields?.assignee?.displayName || "Unassigned"
assignee(i) ==
  IF i.fields /\ i.assignee.is = "object" /\ i.assignee.displayName \notin {<<>>, <<"">>}
  THEN i.assignee.displayName[1] ELSE "Unassigned"
issueItem(i) == [actor |-> assignee(i)]
\* r.content?.title || r.title || "Untitled"
pageItem(r) == [title |-> IF r.title = <<>> THEN "Untitled" ELSE r.title[1]]
issueItems(l) == [i \in 1..Len(l) |-> issueItem(l[i])]
pageItems(l) == [i \in 1..Len(l) |-> pageItem(l[i])]
\* `${p.title}` of the keyword search: a missing title is printed as undefined
searchItem(p) == [title |-> IF p.title = <<>> THEN "undefined" ELSE p.title[1]]
searchItems(l) == [i \in 1..Len(l) |-> searchItem(l[i])]

\* if (!response.ok) return `Failed ...: ${status} ...\n${errText.slice(0, 500)}`
Failed(via, r) ==
  Reply("failed", via = "mcp", <<r.status>>, slice(r.text, DiagLen), <<>>)
NoneFound == Reply("none_found", FALSE, <<>>, <<>>, <<>>)
Results(items) == Reply("results", FALSE, <<>>, <<>>, items)
\* Array.isArray(data.issues) ? data.issues : []
arrayOf(r) == IF r.json[1].list = <<>> THEN <<>> ELSE r.json[1].list[1]

\* search_jira and search_jira_nl after the request: every issue is mapped
jiraSearchBody(via, r) ==
  IF ~r.net THEN Thrown
  ELSE IF ~r.ok THEN Failed(via, r)
  ELSE IF r.json = <<>> THEN Thrown
  ELSE IF arrayOf(r) = <<>> THEN NoneFound
  ELSE Results(issueItems(arrayOf(r)))

\* search_confluence_solutions after the request: results.slice(0, max)
solutionsBody(via, max, r) ==
  IF ~r.net THEN Thrown
  ELSE IF ~r.ok THEN Failed(via, r)
  ELSE IF r.json = <<>> THEN Thrown
  ELSE IF arrayOf(r) = <<>> THEN NoneFound
  ELSE Results(pageItems(SubSeq(arrayOf(r), 1, Min({Max({max, 0}), Len(arrayOf(r))}))))

\* get_confluence_page and get_jira_issue after the request
oneBody(kind, via, r) ==
  IF ~r.net THEN Thrown
  ELSE IF ~r.ok THEN Failed(via, r)
  ELSE IF r.json = <<>> THEN Thrown
  ELSE Reply(kind, FALSE, <<>>, <<>>,
             IF kind = "issue" THEN issueItems(r.json) ELSE pageItems(r.json))

\* the first results.slice(0, n) of the keyword search; p._links.webui throws
\* when a result has no _links
topPages(list, n) ==
  IF \E i \in 1..Min({n, Len(list)}) : ~list[i].links THEN Thrown
  ELSE Results(searchItems(SubSeq(list, 1, Min({n, Len(list)}))))
\* search_confluence of the MCP servers: the status of the answer is not read
TopMcp == 5
mcpSearchConfluenceBody(r) ==
  IF ~r.net \/ r.json = <<>> THEN Thrown
  ELSE IF arrayOf(r) = <<>> THEN NoneFound
  ELSE topPages(arrayOf(r), TopMcp)
\* ConfluenceSearchTool: throw new Error(`Confluence API error: ${status} ...`),
\* caught below with its message kept
TopLangChain == 10
toolSearchConfluenceBody(r) ==
  IF ~r.net THEN Thrown
  ELSE IF ~r.ok THEN Reply("error", FALSE, <<r.status>>, <<>>, <<>>)
  ELSE IF r.json = <<>> THEN Thrown
  ELSE IF arrayOf(r) = <<>> THEN NoneFound
  ELSE topPages(arrayOf(r), TopLangChain)

Catch_Rethrow(via, x) == x
\* try { ... } catch (err) { return <error message> }
Catch(via, x) ==
  IF x.kind = "exception" THEN Reply("error", via = "mcp", <<>>, <<>>, <<>>) ELSE x

\* the records the backing service may answer a call with
AnswersTo(c) ==
  IF c.tool \in {"search_jira", "search_jira_nl"} THEN Answers(RawIssues)
  ELSE IF c.tool = "get_jira_issue" THEN AnswersOne(RawIssues)
  ELSE IF c.tool = "get_confluence_page" THEN AnswersOne(RawPages)
  ELSE Answers(RawPages)

\* the return of the handler of call c, which sent req and was answered r;
\* an Express endpoint wraps the string of the tool in a 200 response
handlerReply(c, req, r) ==
  [Catch(c.via,
         IF c.tool \in {"search_jira", "search_jira_nl"} THEN jiraSearchBody(c.via, r)
         ELSE IF c.tool = "search_confluence_solutions"
         THEN solutionsBody(c.via, req.max[1], r)
         ELSE IF c.tool = "get_jira_issue" THEN oneBody("issue", c.via, r)
         ELSE IF c.tool = "get_confluence_page" THEN oneBody("page", c.via, r)
         ELSE IF c.via = "mcp" THEN mcpSearchConfluenceBody(r)
         ELSE toolSearchConfluenceBody(r))
     EXCEPT !.http = IF c.via = "http" THEN <<200>> ELSE <<>>]

\* the backing service answers (or the connection fails) and the handler
\* runs to its return
Respond ==
  /\ pc = "done"
  /\ outcome = "sent"
  /\ \E r \in AnswersTo(call) :
       /\ resp' = <<r>>
       /\ reply' = handlerReply(call, sent[1], r)
  /\ pc' = "replied"
  /\ UNCHANGED <<env, call, sent, outcome, agentExecutor, clientVars>>

\* ---------------------------------------------------------- ConfluenceAgent
\* initialize(), and the .then of the server that sets agentReady right after
\* it: the executor is created.  When the creation throws, initialize
\* rethrows and the .catch of the server ends the process.
initialize ==
  /\ pc = "idle"
  /\ ExpressEnv \subseteq env
  /\ ~agentExecutor
  /\ \E created \in BOOLEAN :
       /\ agentExecutor' = created
       /\ pc' = IF created THEN "idle" ELSE "exited"
  /\ UNCHANGED <<env, call, sent, outcome, resp, reply, clientVars>>

AgentQueries == {<<>>, <<"x">>}
\* what agentExecutor.invoke does: resolves with an output, or rejects
Invocations == {"output", "rejects"}
\* the try block of processQuery
processQueryBody(executor, invoke) ==
  IF ~executor THEN Thrown
  ELSE IF invoke = "rejects" THEN Thrown
  ELSE Reply("answer", FALSE, <<>>, <<>>, <<>>)
\* a handler that returns without a request to the content or issue service
Finish(c, r) ==
  /\ pc' = "replied"
  /\ call' = c
  /\ sent' = <<>>
  /\ outcome' = "returned"
  /\ resp' = <<>>
  /\ reply' = r
  /\ UNCHANGED <<env, agentExecutor, clientVars>>

processQuery ==
  /\ pc = "idle"
  /\ ExpressEnv \subseteq env
  /\ \E query \in AgentQueries, invoke \in Invocations :
       Finish(Call("processQuery", "agent", <<query>>, <<>>, <<>>, <<>>, <<>>),
              Catch("agent", processQueryBody(agentExecutor, invoke)))

\* the response of POST /agent/query with the body validated before the
\* readiness check
agentQueryResponse_ValidateFirst(ready, query, invoke) ==
  IF query = <<>> \/ query[1] = <<>>
  THEN [Reply("bad_request", FALSE, <<>>, <<>>, <<>>) EXCEPT !.http = <<400>>]
  ELSE IF ~ready
  THEN [Reply("not_ready", FALSE, <<>>, <<>>, <<>>) EXCEPT !.http = <<503>>]
  ELSE [Catch("agent", processQueryBody(ready, invoke)) EXCEPT !.http = <<200>>]

\* the response of POST /agent/query: 503 until agentReady, 400 without a
\* query, else the outcome of processQuery
agentQueryResponse(ready, query, invoke) ==
  IF ~ready
  THEN [Reply("not_ready", FALSE, <<>>, <<>>, <<>>) EXCEPT !.http = <<503>>]
  ELSE IF query = <<>> \/ query[1] = <<>>
  THEN [Reply("bad_request", FALSE, <<>>, <<>>, <<>>) EXCEPT !.http = <<400>>]
  ELSE [Catch("agent", processQueryBody(ready, invoke)) EXCEPT !.http = <<200>>]

PostAgentQuery ==
  /\ pc = "idle"
  /\ ExpressEnv \subseteq env
  /\ \E query \in Absent(AgentQueries), invoke \in Invocations :
       Finish(Call("processQuery", "http", query, <<>>, <<>>, <<>>, <<>>),
              agentQueryResponse(agentExecutor, query, invoke))

\* GET /agent/tools: 503 until agentReady, else the names of the tools
GetAgentTools ==
  /\ pc = "idle"
  /\ ExpressEnv \subseteq env
  /\ Finish(Call("getAvailableTools", "http", <<>>, <<>>, <<>>, <<>>, <<>>),
            IF ~agentExecutor
            THEN [Reply("not_ready", FALSE, <<>>, <<>>, <<>>) EXCEPT !.http = <<503>>]
            ELSE [Reply("tools", FALSE, <<>>, <<>>, <<>>) EXCEPT !.http = <<200>>])

\* -------------------------------------------------------- interactive client
MaxPairs == 3
Clients == {"groq", "openai"}
\* the lines typed at the prompt
Lines ==
  {<<"h","e","l","p">>, <<"H","E","L","P">>, <<"h","e","a","l","t","h">>, <<"t","o","o","l","s">>, <<"c","l","e","a","r">>, <<"q","u","i","t">>, <<"e","x","i","t">>,
   <<"t","e","s","t","-","s","e","a","r","c","h"," ","x">>, <<"t","e","s","t","-","j","i","r","a"," ","x">>, <<"t","e","s","t","-","j","i","r","a","-","n","l"," ","x">>, <<"t","e","s","t","-","s","e","a","r","c","h">>, <<"x">>, <<>>}
\* result.output of the agent
Output == <<"r">>

startsWith(s, prefix) == Len(s) >= Len(prefix) /\ SubSeq(s, 1, Len(prefix)) = prefix
\* the direct-tool commands of each copy of the client
DirectPrefixes(copy) ==
  {<<"t","e","s","t","-","s","e","a","r","c","h"," ">>, <<"t","e","s","t","-","p","a","g","e"," ">>}
    \cup (IF copy = "groq"
          THEN {<<"t","e","s","t","-","s","o","l","u","t","i","o","n","s"," ">>, <<"t","e","s","t","-","j","i","r","a"," ">>, <<"t","e","s","t","-","j","i","r","a","-","n","l"," ">>, <<"t","e","s","t","-","i","s","s","u","e"," ">>}
          ELSE {})
\* the branch of the loop a line takes
command(copy, line) ==
  LET l == toLowerCase(line)
  IN IF l \in {<<"q","u","i","t">>, <<"e","x","i","t">>} THEN "quit"
     ELSE IF l = <<"h","e","l","p">> THEN "help"
     ELSE IF l = <<"h","e","a","l","t","h">> THEN "health"
     ELSE IF l = <<"t","o","o","l","s">> THEN "tools"
     ELSE IF l = <<"c","l","e","a","r">> THEN "clear"
     ELSE IF \E p \in DirectPrefixes(copy) : startsWith(l, p) THEN "direct"
     ELSE "query"
\* sendQuery: null when fetch throws or the response is not ok, else the body
sendQuery(net, r) ==
  IF ~net \/ r.http # <<200>> THEN "null"
  ELSE IF r.kind = "answer" THEN "success" ELSE "failure"
\* chatHistory.push(input, response.response) whatever the response is
historyAfter_Always(h, line, r) ==
  h \o <<[msg |-> line, who |-> "input"], [msg |-> Output, who |-> "response"]>>
\* if (response) { if (response.success) { ... chatHistory.push(input, response.response) } }
historyAfter(h, line, r) ==
  IF r = "success"
  THEN h \o <<[msg |-> line, who |-> "input"], [msg |-> Output, who |-> "response"]>>
  ELSE h

\* one turn of the loop of interactiveTest: a line is read and handled; an
\* agent query is answered by POST /agent/query before the turn ends
interactiveTest ==
  /\ pc = "idle"
  /\ ExpressEnv \subseteq env
  /\ IF input = <<>> THEN TRUE ELSE command(client, input[1]) # "quit"
  /\ \E line \in Lines, net \in BOOLEAN, invoke \in Invocations :
       LET cmd == command(client, line)
           r == sendQuery(net, agentQueryResponse(agentExecutor, <<line>>, invoke))
       IN /\ cmd = "query" => Len(chatHistory) < 2 * MaxPairs
          /\ input' = <<line>>
          /\ response' = IF cmd = "query" THEN r ELSE "none"
          /\ chatHistory' = IF cmd = "clear" THEN <<>>
                            ELSE IF cmd = "query" THEN historyAfter(chatHistory, line, r)
                            ELSE chatHistory
  /\ UNCHANGED <<env, pc, call, sent, outcome, resp, reply, agentExecutor, client>>

\* formattedHistory of processQuery: index % 2 === 0 ? 'Human' : 'Assistant'
formattedHistory(h) ==
  [i \in 1..Len(h) |->
     [label |-> IF (i - 1) % 2 = 0 THEN "Human" ELSE "Assistant", msg |-> h[i].msg]]

\* the handler has returned; the agent keeps its executor
Return ==
  /\ pc = "replied" \/ (pc = "done" /\ outcome # "sent")
  /\ pc' = "idle"
  /\ call' = NoCall
  /\ sent' = <<>>
  /\ outcome' = "none"
  /\ resp' = <<>>
  /\ reply' = NoReply
  /\ UNCHANGED <<env, agentExecutor, clientVars>>

Next ==
  \/ search_jira_nl
  \/ search_jira
  \/ search_confluence_solutions
  \/ search_confluence
  \/ JiraNaturalLanguageTool
  \/ JiraSearchTool
  \/ ConfluenceSolutionsTool
  \/ ConfluenceSearchTool
  \/ PostJiraSearchNl
  \/ PostJiraSearch
  \/ PostConfluenceSolutions
  \/ PostConfluenceSearch
  \/ get_confluence_page
  \/ ConfluencePageTool
  \/ PostConfluencePage
  \/ get_jira_issue
  \/ JiraIssueTool
  \/ PostJiraIssue
  \/ initialize
  \/ processQuery
  \/ PostAgentQuery
  \/ GetAgentTools
  \/ Respond
  \/ Return

Spec == Init /\ [][Next]_vars

\* the entry points of the issue-query compiler alone
\* the page fetch alone
NextPage ==
  \/ get_confluence_page
  \/ ConfluencePageTool
  \/ PostConfluencePage
  \/ Respond
  \/ Return
SpecPage == Init /\ [][NextPage]_vars

\* the issue search alone
NextJiraSearch ==
  \/ search_jira
  \/ JiraSearchTool
  \/ PostJiraSearch
  \/ Respond
  \/ Return
SpecJiraSearch == Init /\ [][NextJiraSearch]_vars

\* the solutions search up to its request
NextSolutions ==
  \/ search_confluence_solutions
  \/ ConfluenceSolutionsTool
  \/ PostConfluenceSolutions
  \/ Return
SpecSolutions == Init /\ [][NextSolutions]_vars

\* the interactive client against the Express server, either copy of it
InitClient ==
  /\ env \in Envs
  /\ pc = "idle"
  /\ call = NoCall
  /\ sent = <<>>
  /\ outcome = "none"
  /\ resp = <<>>
  /\ reply = NoReply
  /\ agentExecutor = FALSE
  /\ client \in Clients
  /\ chatHistory = <<>>
  /\ input = <<>>
  /\ response = "none"
NextClient ==
  \/ initialize
  \/ interactiveTest
SpecClient == InitClient /\ [][NextClient]_vars

NextNl ==
  \/ search_jira_nl
  \/ JiraNaturalLanguageTool
  \/ PostJiraSearchNl
  \/ Return
SpecNl == Init /\ [][NextNl]_vars

\* ==================================================================== claims
\* the last call was the issue-query compiler and it sent its query
NlSent == pc = "done" /\ call.tool = "search_jira_nl" /\ outcome = "sent"
NlCopy == IF call.via = "mcp" THEN "mcp" ELSE "langchain"
NlPrompt == call.text[1]
SolutionsSent == pc = "done" /\ call.tool = "search_confluence_solutions" /\ outcome = "sent"
SentText == Text(sent[1].q)
Contains(s, w) == w = <<>> \/ \E p \in 1..Len(s) : s[p] = w[1] /\ At(s, p, w)
OrderTail == <<" ","o","r","d","e","r"," ","b","y"," ","u","p","d","a","t","e","d"," ","d","e","s","c">>

\* How the query grammar of the backing service reads a character: outside a
\* literal ("out"), inside one ("in"), or right after a backslash inside one
\* ("esc").  A double quote read in "out" opens a literal, read in "in" it
\* closes the literal, read in "esc" it is part of the literal's text.
LexStep(mode, c) ==
  IF mode = "out" THEN (IF c = Q THEN "in" ELSE "out")
  ELSE IF mode = "esc" THEN "in"
  ELSE IF c = BS THEN "esc"
  ELSE IF c = Q THEN "out" ELSE "in"

ParenStep(mode, c) ==
  IF mode # "out" THEN 0 ELSE IF c = "(" THEN 1 ELSE IF c = ")" THEN -1 ELSE 0
\* A quote of the user text must be read as an escaped character; under
\* `strict` a quote of the compiler must moreover not be read as one.
QuoteOk(mode, c, strict) ==
  /\ (c.ch = Q /\ c.user) => mode = "esc"
  /\ (strict /\ c.ch = Q /\ ~c.user) => mode # "esc"

\* The effect of reading a stretch of the query from one mode: the mode at
\* its end, whether every quote in it was read as required, the change of the
\* parenthesis depth and the lowest depth met on the way.
ReadOne(m, c, strict) ==
  [mode |-> LexStep(m, c.ch), ok |-> QuoteOk(m, c, strict),
   delta |-> ParenStep(m, c.ch), low |-> Min({0, ParenStep(m, c.ch)})]
\* ... and from each of the three modes the reader may be in at its start
ReadChar(c, strict) ==
  [o |-> ReadOne("out", c, strict), i |-> ReadOne("in", c, strict),
   e |-> ReadOne("esc", c, strict)]
ReadNothing ==
  [o |-> [mode |-> "out", ok |-> TRUE, delta |-> 0, low |-> 0],
   i |-> [mode |-> "in", ok |-> TRUE, delta |-> 0, low |-> 0],
   e |-> [mode |-> "esc", ok |-> TRUE, delta |-> 0, low |-> 0]]
From(r, m) == IF m = "out" THEN r.o ELSE IF m = "in" THEN r.i ELSE r.e
After(x, y) ==
  [mode |-> y.mode, ok |-> x.ok /\ y.ok, delta |-> x.delta + y.delta,
   low |-> Min({x.low, x.delta + y.low})]
Then(a, b) ==
  [o |-> After(a.o, From(b, a.o.mode)), i |-> After(a.i, From(b, a.i.mode)),
   e |-> After(a.e, From(b, a.e.mode))]
RECURSIVE Read(_, _, _, _)
Read(t, lo, hi, strict) ==
  IF lo > hi THEN ReadNothing
  ELSE IF lo = hi THEN ReadChar(t[lo], strict)
  ELSE CHOOSE r \in {Then(a, b) : a \in {Read(t, lo, (lo + hi) \div 2, strict)},
                                  b \in {Read(t, (lo + hi) \div 2 + 1, hi, strict)}} : TRUE
ReadQuery(t, strict) == Read(t, 1, Len(t), strict).o

\* C1: every double quote that comes from the prompt (search_jira_nl) or from
\* the issue, a space key or a label (search_confluence_solutions) is read by
\* the query grammar as an escaped character, never as the end of a literal.
C1_UserQuotesEscaped ==
  (NlSent \/ SolutionsSent) => ReadQuery(sent[1].q, FALSE).ok

WellFormed(r) == r.ok /\ r.mode = "out" /\ r.delta = 0 /\ r.low >= 0
\* C2: for any input the compiled query is well-formed: every literal the
\* compiler opens is closed by the compiler's own quote and by nothing inside
\* the user text, no literal is left open, and parentheses are balanced.
C2_WellFormed ==
  (NlSent \/ SolutionsSent) => WellFormed(ReadQuery(sent[1].q, TRUE))

\* C3: a prompt that triggers no matcher and holds no quoted phrase compiles to
\* exactly text ~ "E" order by updated desc, E being the prompt with every
\* double quote escaped once.
C3_FallbackEscapedOnce ==
  (NlSent /\ matcherConditions(NlPrompt, NlCopy) = <<>> /\ quotedPhrases(NlPrompt) = <<>>)
    => SentText = <<"t","e","x","t"," ","~"," ","\"">> \o replaceQuotes(NlPrompt) \o <<"\"">> \o OrderTail

PhraseFragments(qp) == [i \in 1..Len(qp) |-> <<"t","e","x","t"," ","~"," ","\"">> \o qp[i] \o <<"\"">>]
TextsOf(frags) == [i \in 1..Len(frags) |-> Text(frags[i])]

\* C4: when the prompt holds quoted phrases, the JQL is the AND of every
\* matcher condition followed by one fragment text ~ "<phrase>" per phrase.
C4_PhraseFragments ==
  (NlSent /\ quotedPhrases(NlPrompt) # <<>>)
    => SentText = join(TextsOf(matcherConditions(NlPrompt, NlCopy))
                         \o PhraseFragments(quotedPhrases(NlPrompt)), <<" ","A","N","D"," ">>)
                  \o OrderTail
C4_Witness ==
  /\ NlSent
  /\ Len(quotedPhrases(NlPrompt)) >= 2
  /\ matcherConditions(NlPrompt, NlCopy) # <<>>
  /\ Contains(SentText, <<"i","s","s","u","e","t","y","p","e"," ","="," ","\"","B","u","g","\""," ","A","N","D"," ","t","e","x","t"," ","~"," ","\"","x","\""," ","A","N","D"," ","t","e","x","t"," ","~"," ","\"","y"," ","z","\"">>)

\* C5: no maxResults outside 1..50 and no limit outside 1..20 is sent to the
\* backing service, whatever the entry point.
C5_LimitInRange ==
  (pc = "done" /\ outcome = "sent" /\ sent[1].max # <<>>)
    => IF call.tool = "search_confluence_solutions"
       THEN sent[1].max[1] \in LimitLo..LimitHi
       ELSE sent[1].max[1] \in JiraMaxLo..JiraMaxHi

Scenario1Conditions ==
  {<<"a","s","s","i","g","n","e","e"," ","="," ","c","u","r","r","e","n","t","U","s","e","r","(",")">>, <<"u","p","d","a","t","e","d"," ",">","="," ","-","1","w">>, <<"p","r","o","j","e","c","t"," ","="," ","E","N","G">>}
\* C6: 'show issues assigned to me last week in ENG' compiles to the three
\* conditions assignee = currentUser(), updated >= -1w and project = ENG,
\* joined by AND (in some order), followed by order by updated desc.
C6_Scenario1 ==
  (NlSent /\ NlPrompt = Scenario1)
    => \E a \in Scenario1Conditions, b \in Scenario1Conditions, c \in Scenario1Conditions :
         /\ {a, b, c} = Scenario1Conditions
         /\ SentText = join(<<a, b, c>>, <<" ","A","N","D"," ">>) \o OrderTail

\* C7 as stated: 'is the X task done?' compiles to a JQL holding both
\* statusCategory = Done and the fallback text fragment of the whole prompt.
C7_StatusAndFallback ==
  (NlSent /\ NlPrompt = Scenario2)
    => /\ Contains(SentText, <<"s","t","a","t","u","s","C","a","t","e","g","o","r","y"," ","="," ","D","o","n","e">>)
       /\ Contains(SentText, <<"t","e","x","t"," ","~"," ","\"","i","s"," ","t","h","e"," ","X"," ","t","a","s","k"," ","d","o","n","e","?","\"">>)
\* C7 amended: the prompt compiles to the two matcher conditions only; the
\* fallback text fragment is absent because conditions were produced.
C7_StatusWithoutFallback ==
  (NlSent /\ NlPrompt = Scenario2)
    => SentText = <<"s","t","a","t","u","s","C","a","t","e","g","o","r","y"," ","="," ","D","o","n","e"," ","A","N","D"," ","i","s","s","u","e","t","y","p","e"," ","="," ","\"","T","a","s","k","\""," ","o","r","d","e","r"," ","b","y"," ","u","p","d","a","t","e","d"," ","d","e","s","c">>
C7_Witness ==
  NlSent /\ NlPrompt = Scenario2 /\ ~Contains(SentText, <<"t","e","x","t"," ","~"," ">>)

\* the text fragments the compiler put into the query
TextFragmentCount(t) ==
  Cardinality({p \in 1..Len(t) :
                 /\ At(Text(t), p, <<"t","e","x","t"," ","~"," ","\"">>)
                 /\ \A k \in p..(p + 7) : ~t[k].user})

\* C8: the query holds one text fragment per quoted phrase, and one more, the
\* whole-prompt fallback, exactly when no matcher produced a condition and the
\* prompt holds no quoted phrase; so the fallback appears at most once and
\* never next to a quoted-phrase fragment.
C8_FallbackRule ==
  NlSent
    => TextFragmentCount(sent[1].q)
         = Len(quotedPhrases(NlPrompt))
           + (IF matcherConditions(NlPrompt, NlCopy) = <<>> /\ quotedPhrases(NlPrompt) = <<>>
              THEN 1 ELSE 0)
C8_Witness ==
  /\ NlSent
  /\ NlPrompt = <<"x","x">>
  /\ TextFragmentCount(sent[1].q) = 1
  /\ SentText = <<"t","e","x","t"," ","~"," ","\"","x","x","\""," ","o","r","d","e","r"," ","b","y"," ","u","p","d","a","t","e","d"," ","d","e","s","c">>

\* C9: in search_confluence and in the free-text branch of search_jira every
\* double quote of the user's query reaches the backing service with a
\* backslash in front of it.
C9_QuotesBackslashed ==
  (/\ pc = "done"
   /\ outcome = "sent"
   /\ \/ call.tool = "search_confluence"
      \/ call.tool = "search_jira" /\ (call.jql = <<>> \/ call.jql[1] = <<>>))
    => \A i \in 1..Len(sent[1].q) :
         (sent[1].q[i].ch = Q /\ sent[1].q[i].user) => (i > 1 /\ sent[1].q[i - 1].ch = BS)

\* the digits N of a prompt "last N days"
DayNumber(prompt) == SubSeq(prompt, 6, Len(prompt) - 5)
\* C10 as stated: the number of a 'last N days' prompt is passed through
\* verbatim into updated >= -Nd whatever its length.
C10_AnyNumberPassedThrough ==
  (NlSent /\ NlPrompt \in DayPrompts)
    => Contains(SentText, <<"u","p","d","a","t","e","d"," ",">","="," ","-">> \o DayNumber(NlPrompt) \o <<"d">>)
\* C10 amended: N is passed through verbatim, with no check of its value, when
\* it is written with one or two digits; a longer number does not match and
\* the query holds no recency fragment.
C10_OneOrTwoDigitsPassedThrough ==
  (NlSent /\ NlPrompt \in DayPrompts)
    => IF Len(DayNumber(NlPrompt)) <= 2
       THEN SentText = <<"u","p","d","a","t","e","d"," ",">","="," ","-">> \o DayNumber(NlPrompt) \o <<"d">> \o OrderTail
       ELSE ~Contains(SentText, <<"u","p","d","a","t","e","d"," ",">","="," ">>)
C10_Witness ==
  /\ NlSent
  /\ NlPrompt \in DayPrompts
  /\ Len(DayNumber(NlPrompt)) = 3
  /\ SentText = <<"t","e","x","t"," ","~"," ","\"">> \o NlPrompt \o <<"\"">> \o OrderTail

\* ---------------------------------------------------------------- C11
Answered == pc = "replied" /\ resp # <<>>
\* C11: when the backing service answers with a non-success status, the tool
\* returns a failure that is neither a result list nor 'no results', that
\* carries the status of the answer, and whose diagnostic text is the start of
\* the body, at most 500 characters of it.
C11_BackendFailureReported ==
  (Answered /\ resp[1].net /\ ~resp[1].ok) =>
    /\ reply.kind \in {"failed", "error"}
    /\ reply.status = <<resp[1].status>>
    /\ Length(reply.diag) <= DiagLen
    /\ reply.diag = slice(resp[1].text, Length(reply.diag))

\* ---------------------------------------------------------- C12, C13
PageCall == pc # "idle" /\ call.tool = "get_confluence_page" /\ call.text # <<>>
PageUrl == call.text[1]
\* the handler got as far as reading the URL: the configuration is complete
\* and the endpoint passed the URL on
UrlRead == outcome \notin {"config_error", "bad_request"}
AllDigits(s) == s # <<>> /\ \A i \in 1..Len(s) : s[i] \in Digits
\* the segments of the path of a URL: the non-empty parts between its slashes
SegmentsOf(url) == filterBoolean(split(parseURL(url).pathname, "/"))
PageIdValues(url) ==
  LET ps == searchParams(parseURL(url).search)
  IN {ps[i].value : i \in {j \in 1..Len(ps) : ps[j].name = <<"p","a","g","e","I","d">>}}
HasPageIdParam(url) == parseURL(url).valid /\ PageIdValues(url) \ {<<>>} # {}
HasPagesDigits(url) ==
  /\ parseURL(url).valid
  /\ \E i \in 1..(Len(SegmentsOf(url)) - 1) :
       SegmentsOf(url)[i] = <<"p","a","g","e","s">> /\ AllDigits(SegmentsOf(url)[i + 1])
PageRequested(id) == sent = <<Request("confluence", pageApiUrl(id), <<>>)>>

\* C12: a page fetch whose URL has neither a non-empty pageId parameter nor a
\* 'pages' segment followed by an all-digit segment sends no request, and
\* whenever the handler reads the URL it returns the 'unable to extract page
\* ID' outcome, flagged as an error on the MCP server.
C12_UnresolvedUrlRejected ==
  (PageCall /\ ~HasPageIdParam(PageUrl) /\ ~HasPagesDigits(PageUrl))
    => /\ sent = <<>>
       /\ UrlRead => /\ outcome = "unresolved_id"
                     /\ reply.kind = "unresolved_id"
                     /\ reply.isError = (call.via = "mcp")
C12_Witness ==
  /\ PageCall
  /\ ~HasPageIdParam(PageUrl)
  /\ ~HasPagesDigits(PageUrl)
  /\ \E i \in 1..(Len(SegmentsOf(PageUrl)) - 1) :
       SegmentsOf(PageUrl)[i] = <<"p","a","g","e","s">> /\ SegmentsOf(PageUrl)[i + 1] = <<"x">>
  /\ reply.kind = "unresolved_id"

\* a URL <origin>/wiki/spaces/<KEY>/pages/<digits>/<title>
EmittedForm(url) ==
  /\ parseURL(url).valid
  /\ At(url, 1, <<"h","t","t","p","s",":","/","/">>)
  /\ parseURL(url).search = <<>>
  /\ Len(SegmentsOf(url)) = 6
  /\ SegmentsOf(url)[1] = <<"w","i","k","i">>
  /\ SegmentsOf(url)[2] = <<"s","p","a","c","e","s">>
  /\ SegmentsOf(url)[4] = <<"p","a","g","e","s">>
  /\ AllDigits(SegmentsOf(url)[5])
\* the identifier by the stated rule: the first pageId parameter if it is not
\* empty, else the segment after the first 'pages' segment if all digits
RuleId(url) ==
  LET byParam == get(searchParams(parseURL(url).search), <<"p","a","g","e","I","d">>)
      segs == SegmentsOf(url)
      first == pagesIndexOf(segs)
  IN IF byParam # <<>> /\ byParam[1] # <<>> THEN byParam[1]
     ELSE IF first # 0 /\ first < Len(segs) /\ AllDigits(segs[first + 1]) THEN segs[first + 1]
     ELSE <<>>
\* C13: the page fetch requests the identifier given by the rule (pageId
\* parameter first, else the digits after the first 'pages' segment) and
\* nothing when the rule gives none; and every URL of the form
\* <origin>/wiki/spaces/<KEY>/pages/<digits>/<title> has <digits> requested.
C13_IdentifierResolution ==
  (PageCall /\ UrlRead /\ parseURL(PageUrl).valid)
    => /\ IF RuleId(PageUrl) = <<>> THEN sent = <<>> ELSE PageRequested(RuleId(PageUrl))
       /\ EmittedForm(PageUrl) => PageRequested(SegmentsOf(PageUrl)[5])
\* the rule alone, which the handlers follow
C13_RuleFollowed ==
  (PageCall /\ UrlRead /\ parseURL(PageUrl).valid)
    => IF RuleId(PageUrl) = <<>> THEN sent = <<>> ELSE PageRequested(RuleId(PageUrl))

\* ---------------------------------------------------------------- C14
JiraSearchCall == pc # "idle" /\ call.tool = "search_jira"
NoJql == call.jql = <<>> \/ call.jql[1] = <<>>
NoQuery == call.text = <<>> \/ call.text[1] = <<>>
BlankQuery == NoQuery \/ \A i \in 1..Len(call.text[1]) : call.text[1][i] \in WS
\* C14: an issue search with no jql (absent or empty) and a query that is
\* absent, empty or only whitespace sends no request and returns a
\* rejected-request outcome, never an exception: the tool's own rejection once
\* the arguments and configuration checks are passed, and a 400 response from
\* POST /jira/search when neither jql nor query is given.
C14_EmptySearchRejected ==
  (JiraSearchCall /\ NoJql /\ BlankQuery)
    => /\ sent = <<>>
       /\ reply.kind \in {"input_error", "bad_request", "config_error", "invalid_params"}
       /\ outcome \notin {"config_error", "invalid_params"}
            => IF call.via = "http" /\ NoQuery
               THEN outcome = "bad_request" /\ reply.http = <<400>>
               ELSE outcome = "input_error" /\ reply.isError = (call.via = "mcp")
C14_Witness ==
  /\ JiraSearchCall
  /\ call.jql = << <<>> >>
  /\ ~NoQuery
  /\ BlankQuery
  /\ reply.kind = "input_error"

\* ---------------------------------------------------------------- C15
EffectiveLimit ==
  IF call.limit # <<>> THEN call.limit[1]
  ELSE IF call.tool = "search_confluence_solutions" THEN LimitDefault ELSE JiraMaxDefault
\* C15: the list of items an issue search, a natural-language issue search or
\* a solutions search returns is never longer than the effective limit (the
\* caller's maxResults or limit, or the default), whatever the service answers.
C15_ItemsWithinLimit ==
  (/\ Answered
   /\ call.tool \in {"search_jira", "search_jira_nl", "search_confluence_solutions"}
   /\ reply.kind = "results")
    => Len(reply.items) <= EffectiveLimit

\* ---------------------------------------------------------------- C16
Returned == pc = "replied"
TransportError == resp # <<>> /\ ~resp[1].net
MalformedAnswer == resp # <<>> /\ resp[1].net /\ resp[1].ok /\ resp[1].json = <<>>
BeforeInitialize == call.tool = "processQuery" /\ call.via = "agent" /\ ~agentExecutor
\* C16: no handler and no call of processQuery ends in an exception; after a
\* transport error, a malformed answer, or a processQuery before initialize()
\* the caller gets the returned failure outcome (flagged as an error by the
\* MCP servers).
C16_FailuresReturned ==
  Returned
    => /\ reply.kind # "exception"
       /\ (TransportError \/ MalformedAnswer \/ BeforeInitialize)
            => reply.kind = "error" /\ reply.isError = (call.via = "mcp")
C16_Witness ==
  /\ Returned
  /\ BeforeInitialize
  /\ reply.kind = "error"
C16_WitnessTransport ==
  /\ Returned
  /\ TransportError
  /\ call.tool = "search_jira_nl"
  /\ reply.kind = "error"

\* ------------------------------------------------------- C17, C18, C19
SolutionsCompiled == pc # "idle" /\ call.tool = "search_confluence_solutions" /\ outcome = "sent"
SolutionsIssue == call.text[1]
NoList(arg) == arg = <<>> \/ arg[1] = <<>>
Scenario3Cql ==
  <<"t","y","p","e"," ","="," ","p","a","g","e"," ","A","N","D"," ","(","t","e","x","t"," ","~"," ","\"","s","u","r","v","e","y"," ","s","u","b","m","i","s","s","i","o","n"," ","f","a","i","l","i","n","g","\"",")"," ","A","N","D"," ","(","t","i","t","l","e"," ","~"," ","\"","t","r","o","u","b","l","e","s","h","o","o","t","\""," ","O","R"," ","t","i","t","l","e"," ","~"," ","\"","s","o","l","u","t","i","o","n","\""," ","O","R"," ","t","i","t","l","e"," ","~"," ","\"","r","e","s","o","l","v","e","\""," ","O","R"," ","t","i","t","l","e"," ","~"," ","\"","e","r","r","o","r","\""," ","O","R"," ","t","i","t","l","e"," ","~"," ","\"","f","i","x","\""," ","O","R"," ","t","i","t","l","e"," ","~"," ","\"","h","o","w"," ","t","o","\""," ","O","R"," ","t","i","t","l","e"," ","~"," ","\"","h","o","w","-","t","o","\""," ","O","R"," ","t","i","t","l","e"," ","~"," ","\"","s","e","t","u","p","\""," ","O","R"," ","t","i","t","l","e"," ","~"," ","\"","i","n","s","t","a","l","l","\""," ","O","R"," ","t","i","t","l","e"," ","~"," ","\"","c","o","n","f","i","g","u","r","e","\""," ","O","R"," ","t","i","t","l","e"," ","~"," ","\"","g","u","i","d","e","\"",")"," ","A","N","D"," ","(","l","a","b","e","l"," ","="," ","\"","t","r","o","u","b","l","e","s","h","o","o","t","i","n","g","\""," ","O","R"," ","l","a","b","e","l"," ","="," ","\"","h","o","w","-","t","o","\""," ","O","R"," ","l","a","b","e","l"," ","="," ","\"","k","b","-","h","o","w","-","t","o","-","a","r","t","i","c","l","e","\""," ","O","R"," ","l","a","b","e","l"," ","="," ","\"","r","e","s","o","l","u","t","i","o","n","\""," ","O","R"," ","l","a","b","e","l"," ","="," ","\"","f","i","x","\""," ","O","R"," ","l","a","b","e","l"," ","="," ","\"","s","e","t","u","p","\""," ","O","R"," ","l","a","b","e","l"," ","="," ","\"","i","n","s","t","a","l","l","\""," ","O","R"," ","l","a","b","e","l"," ","="," ","\"","c","o","n","f","i","g","u","r","e","\"",")"," ","A","N","D"," ","(","s","p","a","c","e"," ","="," ","\"","E","N","G","\"",")"," ","o","r","d","e","r"," ","b","y"," ","l","a","s","t","m","o","d","i","f","i","e","d"," ","d","e","s","c">>
\* C17: the solutions search for 'survey submission failing' in the space ENG,
\* with no labels given, sends type = page, the text fragment, the group of
\* title keywords, the group of default labels and (space = "ENG"), joined by
\* AND and followed by order by lastmodified desc.
C17_Scenario3 ==
  (/\ SolutionsCompiled
   /\ SolutionsIssue = <<"s","u","r","v","e","y"," ","s","u","b","m","i","s","s","i","o","n"," ","f","a","i","l","i","n","g">>
   /\ call.spaces = << << <<"E","N","G">> >> >>
   /\ NoList(call.labels))
    => SentText = Scenario3Cql
C17_Witness ==
  /\ SolutionsCompiled
  /\ SolutionsIssue = <<"s","u","r","v","e","y"," ","s","u","b","m","i","s","s","i","o","n"," ","f","a","i","l","i","n","g">>
  /\ call.spaces = << << <<"E","N","G">> >> >>
  /\ call.labels = <<>>
  /\ SentText = Scenario3Cql

Omitted(arg) == IF NoList(arg) THEN <<>> ELSE arg
\* C18: with labels = [] or spaces = [] the query sent is the one compiled
\* with that argument omitted, and no query holds an empty group ().
C18_EmptyListsAsOmitted ==
  SolutionsCompiled
    => \A s \in {SentText} :
         /\ ~Contains(s, <<"(",")">>)
         /\ (call.labels = << <<>> >> \/ call.spaces = << <<>> >>)
              => s = Text(solutionsCql(SolutionsIssue, Omitted(call.spaces),
                                       Omitted(call.labels)))
C18_Witness ==
  /\ SolutionsCompiled
  /\ call.labels = << <<>> >>
  /\ call.spaces = << <<>> >>
  /\ Contains(SentText, <<"(","l","a","b","e","l"," ","="," ","\"","t","r","o","u","b","l","e","s","h","o","o","t","i","n","g","\""," ","O","R"," ">>)

\* the caller's labels, each once, then the defaults not among them
RECURSIVE Once(_)
Once(list) ==
  IF list = <<>> THEN <<>>
  ELSE Once(SubSeq(list, 1, Len(list) - 1))
         \o (IF \E k \in 1..(Len(list) - 1) : list[k] = list[Len(list)]
             THEN <<>> ELSE <<list[Len(list)]>>)
CallerLabels == IF call.labels = <<>> THEN <<>> ELSE call.labels[1]
UnionLabels ==
  Once(CallerLabels)
    \o SelectSeq(defaultLabels, LAMBDA l : \A k \in 1..Len(CallerLabels) : CallerLabels[k] # l)
LabelGroup ==
  <<"(">> \o join([i \in 1..Len(UnionLabels) |->
                  <<"l","a","b","e","l"," ","="," ","\"">> \o replaceQuotes(UnionLabels[i]) \o <<Q>>], <<" ","O","R"," ">>)
       \o <<")">>
LabelFragmentCount(t) ==
  Cardinality(UNION {{p \in 1..Len(t) :
                        /\ At(s, p, <<"l","a","b","e","l"," ","="," ","\"">>)
                        /\ \A k \in p..(p + 8) : ~t[k].user} : s \in {Text(t)}})
\* C19: every solutions query holds the label group, made of the caller's
\* labels in the given order followed by the eight defaults not among them,
\* each label once, and holds no other label fragment.
C19_LabelGroup ==
  SolutionsCompiled
    => \A s \in {SentText}, group \in {<<" ","A","N","D"," ">> \o LabelGroup}, union \in {UnionLabels} :
         /\ Contains(s, group)
         /\ LabelFragmentCount(sent[1].q) = Len(union)
         /\ Len(union) = Cardinality({CallerLabels[k] : k \in 1..Len(CallerLabels)}
                                       \cup {defaultLabels[k] : k \in 1..Len(defaultLabels)})
C19_Witness ==
  /\ SolutionsCompiled
  /\ CallerLabels = << <<"f","i","x">>, <<"l", Q>> >>
  /\ Contains(SentText, <<"(","l","a","b","e","l"," ","="," ","\"","f","i","x","\""," ","O","R"," ","l","a","b","e","l"," ","="," ","\"","l","\\","\"","\""," ","O","R"," ","l","a","b","e","l"," ","="," ","\"","t","r","o","u","b","l","e","s","h","o","o","t","i","n","g","\""," ","O","R"," ">>)

\* ---------------------------------------------------------------- C20
\* the raw issue records of the answer an issue tool turned into items
IssueRecords ==
  IF call.tool = "get_jira_issue" THEN resp[1].json ELSE arrayOf(resp[1])
LacksAssignee(i) ==
  ~i.fields \/ i.assignee.is # "object" \/ i.assignee.displayName = <<>>
\* C20: every issue record without an assignee (no fields, assignee absent or
\* null, or assignee without a display name) becomes an item whose actor is
\* 'Unassigned', in the issue search, the natural-language issue search and
\* the issue fetch.
C20_Unassigned ==
  (/\ Answered
   /\ call.tool \in {"search_jira", "search_jira_nl", "get_jira_issue"}
   /\ reply.kind \in {"results", "issue"})
    => /\ Len(reply.items) = Len(IssueRecords)
       /\ \A n \in 1..Len(IssueRecords) :
            LacksAssignee(IssueRecords[n]) => reply.items[n].actor = "Unassigned"
C20_Witness ==
  /\ Answered
  /\ call.tool = "get_jira_issue"
  /\ reply.kind = "issue"
  /\ IssueRecords[1].fields
  /\ IssueRecords[1].assignee.is = "null"
  /\ reply.items[1].actor = "Unassigned"

\* ---------------------------------------------------------------- C21
\* the answer is a success that holds records to map
RecordsAnswered ==
  /\ Answered
  /\ resp[1].net
  /\ resp[1].ok
  /\ resp[1].json # <<>>
  /\ call.tool \in {"get_jira_issue", "get_confluence_page"} \/ arrayOf(resp[1]) # <<>>
\* C21: whenever the service answers with records, the operation returns
\* items (mapping raises nothing), and no field of an item is undefined: a
\* record without title or assignee gets the fallback of that field.
C21_FieldsDefined ==
  RecordsAnswered
    => /\ reply.kind \in {"results", "page", "issue"}
       /\ \A n \in 1..Len(reply.items) :
            \A f \in DOMAIN reply.items[n] : reply.items[n][f] # "undefined"

\* ---------------------------------------------------------------- C22
SearchTools == {"search_jira", "search_jira_nl", "search_confluence", "search_confluence_solutions"}
EmptyAnswered ==
  /\ Answered
  /\ call.tool \in SearchTools
  /\ resp[1].net
  /\ resp[1].ok
  /\ resp[1].json # <<>>
  /\ arrayOf(resp[1]) = <<>>
\* C22: a search answered successfully with an empty list returns the 'no
\* results' outcome, not flagged as an error; and that outcome tells the case
\* apart from every failure: a search returns it only when the service
\* answered successfully.
C22_NoResultsDistinct ==
  /\ EmptyAnswered => reply.kind = "none_found" /\ ~reply.isError
  /\ (Answered /\ call.tool \in SearchTools /\ reply.kind = "none_found")
       => resp[1].net /\ resp[1].ok
\* the first half alone, which every search satisfies
C22_EmptyIsNoResults ==
  EmptyAnswered => reply.kind = "none_found" /\ ~reply.isError

\* ---------------------------------------------------------------- C23
SolutionsTail == <<" ","o","r","d","e","r"," ","b","y"," ","l","a","s","t","m","o","d","i","f","i","e","d"," ","d","e","s","c">>
\* the places where the compiler's own text holds the clause w
ClauseStarts(t, w) ==
  UNION {{p \in 1..Len(t) : /\ s[p] = w[1]
                            /\ At(s, p, w)
                            /\ \A k \in p..(p + Len(w) - 1) : ~t[k].user} : s \in {Text(t)}}
\* the query t holds the ordering clause w once, as its end, and the query
\* grammar reads it as a clause: it is outside every literal
EndsWithOneClause(t, w) ==
  /\ ClauseStarts(t, w) = {Len(t) - Len(w) + 1}
  /\ Read(t, 1, Len(t) - Len(w), FALSE).o.mode = "out"
C23_ClauseAppendedOnce ==
  /\ NlSent => ClauseStarts(sent[1].q, OrderTail) = {Len(sent[1].q) - Len(OrderTail) + 1}
  /\ SolutionsSent
       => ClauseStarts(sent[1].q, SolutionsTail) = {Len(sent[1].q) - Len(SolutionsTail) + 1}

\* ---------------------------------------------------------------- C24
\* C24: a service that lacks a required credential or the base URL has failed
\* at startup, so no request of it ever reaches a backing service.
C24_NoRequestWithoutCredentials ==
  ~(McpEnv \subseteq env) => sent = <<>>

\* ---------------------------------------------------------------- C25
\* the query a compiler call has sent, as a function of the call's arguments
\* alone
C25_Compiled ==
  IF call.tool = "search_jira_nl" THEN nlJql(NlPrompt, NlCopy)
  ELSE urlDecode(encodeURIComponent(
         solutionsCql(call.text[1], call.spaces, call.labels)))

C26_JqlVerbatim ==
  (JiraSearchCall /\ ~NoJql)
    => /\ outcome \in {"sent", "invalid_params", "config_error"}
       /\ outcome = "sent"
            => /\ Text(sent[1].q) = call.jql[1]
               /\ \A i \in 1..Len(sent[1].q) : sent[1].q[i].user
C26_Witness ==
  /\ JiraSearchCall
  /\ outcome = "sent"
  /\ ~NoJql
  /\ ~NoQuery
  /\ \E i \in 1..Len(call.jql[1]) : call.jql[1][i] = Q
  /\ call.jql[1][1] \in WS

\* ---------------------------------------------------------------- C27
\* the word w occurs in the prompt as a whole word, in any letter case: no
\* letter, digit or underscore stands right before or right after it
IsWholeWord(w) ==
  \A lower \in {toLowerCase(NlPrompt)} :
    \E p \in 1..Len(lower) :
      /\ At(lower, p, w)
      /\ ~IsW(lower, p - 1)
      /\ ~IsW(lower, p + Len(w))
HasPriority(name) == Contains(SentText, <<"p","r","i","o","r","i","t","y"," ","="," ","\"">> \o name \o <<"\"">>)

\* C27: the four priority matchers are independent of one another. The
\* fragment priority = "Critical", "Blocker", "Highest" or "High" is in the
\* JQL exactly when its own trigger (critical; blocker; highest or p1; high or
\* p2) occurs in the prompt as a whole word; 'critical high' yields both
\* Critical and High, and 'highest' yields Highest without High.
C27_PriorityMatchers ==
  NlSent =>
    /\ HasPriority(<<"C","r","i","t","i","c","a","l">>) <=> IsWholeWord(<<"c","r","i","t","i","c","a","l">>)
    /\ HasPriority(<<"B","l","o","c","k","e","r">>) <=> IsWholeWord(<<"b","l","o","c","k","e","r">>)
    /\ HasPriority(<<"H","i","g","h","e","s","t">>) <=> (IsWholeWord(<<"h","i","g","h","e","s","t">>) \/ IsWholeWord(<<"p","1">>))
    /\ HasPriority(<<"H","i","g","h">>) <=> (IsWholeWord(<<"h","i","g","h">>) \/ IsWholeWord(<<"p","2">>))
    /\ NlPrompt = <<"c","r","i","t","i","c","a","l"," ","h","i","g","h">> => HasPriority(<<"C","r","i","t","i","c","a","l">>) /\ HasPriority(<<"H","i","g","h">>)
    /\ NlPrompt = <<"h","i","g","h","e","s","t">> => HasPriority(<<"H","i","g","h","e","s","t">>) /\ ~HasPriority(<<"H","i","g","h">>)
C27_Witness ==
  /\ NlSent
  /\ NlPrompt = <<"h","i","g","h","e","s","t">>
  /\ HasPriority(<<"H","i","g","h","e","s","t">>)

\* ---------------------------------------------------------------- C28
AgentEndpoint ==
  /\ pc = "replied"
  /\ call.via = "http"
  /\ call.tool \in {"processQuery", "getAvailableTools"}
\* the endpoints answer 503 exactly while the agent is not ready, whatever
\* the body of the request
NotReadyIs503 ==
  AgentEndpoint =>
    IF agentExecutor
    THEN reply.kind # "not_ready" /\ reply.http # <<503>>
    ELSE reply.kind = "not_ready" /\ reply.http = <<503>>
\* readiness is never withdrawn, and once the initialization has failed the
\* process has ended: no step follows
ReadyStep ==
  /\ agentExecutor => agentExecutor'
  /\ pc # "exited"

\* C28: POST /agent/query and GET /agent/tools never invoke the agent before
\* initialize() has completed: until then they answer 503, also for an invalid
\* body; agentReady only changes from false to true; a failed initialization
\* ends the process, after which nothing is served.
C28_ReadyBeforeInvoke == []NotReadyIs503 /\ [][ReadyStep]_vars
C28_Witness ==
  /\ AgentEndpoint
  /\ call.tool = "processQuery"
  /\ ~agentExecutor
  /\ call.text = <<>>
  /\ reply.http = <<503>>

\* ---------------------------------------------------------------- C29
\* the history is a sequence of pairs, a line of the user then a response of
\* the agent, and processQuery labels each entry by what it is
PairsOfInputAndResponse ==
  /\ Len(chatHistory) % 2 = 0
  /\ \A i \in 1..Len(chatHistory) :
       /\ chatHistory[i].who = (IF i % 2 = 1 THEN "input" ELSE "response")
       /\ formattedHistory(chatHistory)[i].label
            = (IF chatHistory[i].who = "input" THEN "Human" ELSE "Assistant")
\* a turn of the client appends the line and the response, in this order,
\* when the query succeeded, empties the history on 'clear', and leaves it
\* alone otherwise
HistoryStep ==
  clientVars' # clientVars =>
    LET cmd == command(client, input'[1])
    IN IF cmd = "clear" THEN chatHistory' = <<>>
       ELSE IF cmd = "query" /\ response' = "success"
       THEN chatHistory' = chatHistory \o <<[msg |-> input'[1], who |-> "input"],
                                            [msg |-> Output, who |-> "response"]>>
       ELSE chatHistory' = chatHistory

\* C29: after any sequence of commands of the interactive client the chat
\* history is a sequence of (user input, agent response) pairs: its length is
\* even, only a successful agent query appends to it (the input, then the
\* response), a failed query and the help, health, tools and direct-tool
\* commands leave it unchanged, 'clear' empties it; so the labels Human (even
\* index) and Assistant (odd index) of processQuery are right.
C29_HistoryOfPairs == []PairsOfInputAndResponse /\ [][HistoryStep]_vars
\* a failed query and a direct-tool command came after two successful queries
C29_Witness ==
  /\ Len(chatHistory) = 4
  /\ response = "failure"
  /\ chatHistory[3].msg = <<"t","e","s","t","-","j","i","r","a"," ","x">>

\* ---------------------------------------------------------------- C30
\* the status words only the LangChain copy of the compiler recognises
LangChainOnly == {<<"i","n","c","o","m","p","l","e","t","e">>, <<"p","e","n","d","i","n","g">>, <<"c","o","m","p","l","e","t","e","d">>, <<"f","i","n","i","s","h","e","d">>}
ContainsSynonym ==
  \A lower \in {toLowerCase(NlPrompt)} : \E w \in LangChainOnly : Contains(lower, w)
OtherCopy == IF NlCopy = "mcp" THEN "langchain" ELSE "mcp"

C30_CopiesDiffer ==
  NlSent /\ ContainsSynonym /\ sent[1].q # nlJql(NlPrompt, OtherCopy)

====
